---- MODULE Spec2Model ----
(***************************************************************************)
(* Model of the SQL safety gate (backend/src/utils/sql_validator.py), of   *)
(* the CSV and JSON export formatters (backend/src/services), of the       *)
(* export service, its streaming exporter and endpoints (api/exports.py),  *)
(* of query execution and its history (api/queries.py,                     *)
(* services/query_service.py) and of the metadata cache                    *)
(* (services/metadata_service.py).                                         *)
(*                                                                         *)
(* SQL text is a sequence of lexemes.  "body" stands for a projection and  *)
(* FROM clause ("* FROM users"), "'" for a string literal that is never    *)
(* closed, "SELEC" for a misspelt keyword (an identifier to the parser).   *)
(***************************************************************************)
EXTENDS Integers, Sequences, FiniteSets, Bags, TLC

VARIABLES
    gateSql,      \* the SQL string handed to the gate
    maxRows,      \* settings.max_query_result_rows
    gatePc,       \* "idle" | "validated" | "revalidated"
    gateRes,      \* outcome of validate_and_transform_query(gateSql)
    gateRes2,     \* outcome of validate_and_transform_query(gateRes.sql)
    synRes,       \* outcome of validate_sql_syntax(gateSql)
    csvBom,       \* CSVFormatter.include_bom
    csvColumns,   \* format_rows argument: columns
    csvRows,      \* format_rows argument: rows
    csvChunkSize, \* format_rows argument: chunk_size
    csvPc,        \* position of the format_rows generator
    csvI,         \* loop variable i of format_rows: start of the next chunk
    csvOut,       \* chunks yielded so far, in order
    csvComplete,  \* result of format_complete(columns, rows), once called
    jsonPretty,   \* JSONFormatter.pretty
    jsonColumns,  \* JSONFormatter.format_rows argument: columns
    jsonRows,     \* JSONFormatter.format_rows argument: rows
    jsonChunkSize,\* JSONFormatter.format_rows argument: chunk_size
    jsonPc,       \* position of the JSON format_rows generator
    jsonI,        \* loop variable i: start of the current chunk
    jsonJ,        \* rows of the current chunk already yielded
    jsonRowIndex, \* local row_index
    jsonOut,      \* chunks yielded so far, in order
    jsonComplete, \* result of JSONFormatter.format_complete, once called
    expFormat,    \* the export endpoint called: "csv" | "json"
    expHasResult, \* request.query_result is present
    expColumns,   \* request.query_result.columns
    expRows,      \* request.query_result.rows
    expTotalRows, \* request.query_result.total_rows
    expOptions,   \* request.options
    expPc,        \* position of the export request
    expHttp,      \* status code of the response, 0 before there is one
    expFault,     \* where an unexpected exception struck the handler
    expHistory,   \* records handed to create_export_history, in order
    expAuditRaised, \* the audit block of the handler raised
    expEstimate,  \* result of estimate_size_bytes, -1 before it is called
    expStreamed,  \* is_large_dataset(total_rows) as taken by export_csv/json
    expRowsProcessed, \* rows_processed of stream_csv / stream_json
    expGen,       \* chunks the response generator has still to yield
    expOut,       \* chunks the response generator yielded so far
    qrySql,       \* request.sql of POST /execute
    qryConnExists,\* a Connection row with request.connection_id exists
    qryPc,        \* position of the request in QueryService.execute_query
    qryGate,      \* outcome of validate_and_transform_query(sql)
    qryRaised,    \* class of the exception that left execute_query, or "none"
    qryStage,     \* the step of execute_query that raised it
    qryExecuted,  \* SQL strings handed to conn.fetch, in order
    qryHistory,   \* query_history rows written by _save_to_history
    qryHttp,      \* status code of the response, 0 before there is one
    hstEntries,   \* the query_history table, rows in executed_at order
    hstPc,        \* per request: position in QueryService.execute_query
    hstConn,      \* per request: connection_id
    hstClock,     \* executed_at of the next row saved, a counter
    mdCache,      \* the metadata_cache table: a bag of rows
    mdNow,        \* datetime.utcnow(), in hours
    mdPc,         \* per request: position in a MetadataService call
    mdCall,       \* per request: the cache key and use_cache of the call, and its number
    mdResult,     \* per request: where the last answer came from
    mdCalls       \* calls started so far

gateVars == <<gateSql, maxRows, gatePc, gateRes, gateRes2, synRes>>
csvVars == <<csvBom, csvColumns, csvRows, csvChunkSize, csvPc, csvI, csvOut, csvComplete>>
jsonVars == <<jsonPretty, jsonColumns, jsonRows, jsonChunkSize, jsonPc, jsonI, jsonJ,
              jsonRowIndex, jsonOut, jsonComplete>>
expVars == <<expFormat, expHasResult, expColumns, expRows, expTotalRows, expOptions,
             expPc, expHttp, expFault, expHistory, expAuditRaised, expEstimate,
             expStreamed, expRowsProcessed, expGen, expOut>>
qryVars == <<qrySql, qryConnExists, qryPc, qryGate, qryRaised, qryStage, qryExecuted,
             qryHistory, qryHttp>>
hstVars == <<hstEntries, hstPc, hstConn, hstClock>>
mdVars == <<mdCache, mdNow, mdPc, mdCall, mdResult, mdCalls>>
vars == <<gateVars, csvVars, jsonVars, expVars, qryVars, hstVars, mdVars>>

\* the state an operation of one component leaves alone
notGate == <<csvVars, jsonVars, expVars, qryVars, hstVars, mdVars>>
notCsv == <<gateVars, jsonVars, expVars, qryVars, hstVars, mdVars>>
notJson == <<gateVars, csvVars, expVars, qryVars, hstVars, mdVars>>
notExp == <<gateVars, csvVars, jsonVars, qryVars, hstVars, mdVars>>
notQry == <<gateVars, csvVars, jsonVars, expVars, hstVars, mdVars>>
notHst == <<gateVars, csvVars, jsonVars, expVars, qryVars, mdVars>>
notMd == <<gateVars, csvVars, jsonVars, expVars, qryVars, hstVars>>

(***************************************************************************)
(* Bounds                                                                  *)
(***************************************************************************)
MaxStmts == 2
MaxCols == 2
MaxRows == 3
MaxChunk == 3

(***************************************************************************)
(* Helpers on sequences                                                    *)
(***************************************************************************)
RECURSIVE Concat(_)
Concat(ss) == IF ss = <<>> THEN <<>> ELSE Head(ss) \o Concat(Tail(ss))

SeqsUpTo(S, n) == UNION {[1..k -> S] : k \in 0..n}

Min(a, b) == IF a <= b THEN a ELSE b

(***************************************************************************)
(* SQL gate: the parser and generator called at sql_validator.py:52,71     *)
(***************************************************************************)
IntToStr(n) ==
    CASE n = 0 -> "0"
      [] n = 10 -> "10"
      [] n = 500 -> "500"
      [] n = 1000 -> "1000"

Upper(tok) ==
    CASE tok = "select" -> "SELECT"
      [] tok = "limit" -> "LIMIT"
      [] OTHER -> tok

Numbers == {"0", "10", "500", "1000"}
OtherKeywords == {"DELETE", "DROP", "INSERT", "UPDATE"}

\* The tokenizer: a string literal that is never closed raises TokenError,
\* keywords are case-insensitive.
Tokenize(sql) ==
    IF \E k \in 1..Len(sql) : sql[k] = "'"
    THEN [err |-> "TokenError", tokens |-> <<>>]
    ELSE [err |-> "none", tokens |-> [k \in 1..Len(sql) |-> Upper(sql[k])]]

\* Statements are split at semicolons; a trailing semicolon opens no chunk.
RECURSIVE SplitFrom(_, _, _)
SplitFrom(tokens, k, chunks) ==
    IF k > Len(tokens) THEN chunks
    ELSE IF tokens[k] = ";"
         THEN SplitFrom(tokens, k + 1,
                        IF k < Len(tokens) THEN Append(chunks, <<>>) ELSE chunks)
         ELSE SplitFrom(tokens, k + 1,
                        [chunks EXCEPT ![Len(chunks)] = Append(@, tokens[k])])

SplitStatements(tokens) == SplitFrom(tokens, 1, << <<>> >>)

NoAst == [kind |-> "None", limit |-> <<>>]

\* One statement: a SELECT with an optional top-level LIMIT, another
\* statement kind, nothing at all, or text that is no statement.
ParseStatement(chunk) ==
    CASE chunk = <<>> ->
            [err |-> "none", ast |-> NoAst]
      [] chunk = <<"SELECT", "body">> ->
            [err |-> "none", ast |-> [kind |-> "Select", limit |-> <<>>]]
      [] Len(chunk) = 4 /\ SubSeq(chunk, 1, 3) = <<"SELECT", "body", "LIMIT">>
                        /\ chunk[4] \in Numbers ->
            [err |-> "none", ast |-> [kind |-> "Select", limit |-> <<chunk[4]>>]]
      [] Len(chunk) = 2 /\ chunk[1] \in OtherKeywords /\ chunk[2] = "body" ->
            [err |-> "none", ast |-> [kind |-> chunk[1], limit |-> <<>>]]
      [] OTHER ->
            [err |-> "ParseError", ast |-> NoAst]

\* sqlglot.parse: every statement is parsed, the first error is raised.
RECURSIVE ParseChunks(_)
ParseChunks(chunks) ==
    IF chunks = <<>> THEN [err |-> "none", asts |-> <<>>]
    ELSE LET first == ParseStatement(Head(chunks))
         IN IF first.err # "none" THEN [err |-> first.err, asts |-> <<>>]
            ELSE LET rest == ParseChunks(Tail(chunks))
                 IN IF rest.err # "none" THEN rest
                    ELSE [err |-> "none", asts |-> <<first.ast>> \o rest.asts]

\* sqlglot.parse_one: the FIRST parsed statement is returned, the later ones
\* are dropped; no first statement is a ParseError.
parse_one(sql) ==
    LET toks == Tokenize(sql)
    IN IF toks.err # "none" THEN [err |-> toks.err, ast |-> NoAst]
       ELSE LET parsed == ParseChunks(SplitStatements(toks.tokens))
            IN IF parsed.err # "none" THEN [err |-> parsed.err, ast |-> NoAst]
               ELSE IF parsed.asts[1] = NoAst
                    THEN [err |-> "ParseError", ast |-> NoAst]
                    ELSE [err |-> "none", ast |-> parsed.asts[1]]

\* a generator that leaves the LIMIT clause out
ToSqlWithoutLimit(ast) == <<"SELECT", "body">>

\* Expression.sql(dialect="postgres") of a Select
ToSql(ast) ==
    <<"SELECT", "body">> \o (IF ast.limit = <<>> THEN <<>> ELSE <<"LIMIT">> \o ast.limit)

(***************************************************************************)
(* SQL gate: sql_validator.py                                              *)
(***************************************************************************)
SyntaxMessage == <<"SQL syntax error: ", "ParseError">>
KindMessage == <<"Only SELECT statements are allowed. ",
                 "INSERT, UPDATE, DELETE, DROP, and other statements are forbidden.">>
AppliedMessage(n) == <<"LIMIT ", IntToStr(n), " automatically applied">>

NoResult == [status |-> "none", sql |-> <<>>, message |-> <<>>]
Raised(exc, msg) == [status |-> exc, sql |-> <<>>, message |-> msg]

IsSelectOrInsert(ast) == ast.kind \in {"Select", "INSERT"}
IsSelect(ast) == ast.kind = "Select"

HasLimitNonZero(ast) == ast.limit # <<>> /\ ast.limit # <<"0">>
HasLimitWrongKey(ast) == FALSE
HasLimit(ast) == ast.limit # <<>>

InjectedLimit == 1000

validate_and_transform_query(sql) ==
    LET p == parse_one(sql)
    IN CASE p.err = "ParseError" -> Raised("SQLValidationError", SyntaxMessage)
         [] p.err = "TokenError" -> Raised("TokenError", <<>>)
         [] OTHER ->
            IF ~IsSelect(p.ast) THEN Raised("SQLValidationError", KindMessage)
            ELSE IF ~HasLimit(p.ast)
                 THEN [status |-> "ok",
                       sql |-> ToSql([p.ast EXCEPT !.limit = <<IntToStr(InjectedLimit)>>]),
                       message |-> AppliedMessage(InjectedLimit)]
                 ELSE [status |-> "ok", sql |-> ToSql(p.ast), message |-> <<>>]

validate_sql_syntax(sql) ==
    LET p == parse_one(sql)
    IN CASE p.err = "ParseError" ->
                [status |-> "returned", valid |-> FALSE, message |-> SyntaxMessage]
         [] p.err = "TokenError" ->
                [status |-> "TokenError", valid |-> FALSE, message |-> <<>>]
         [] OTHER ->
                [status |-> "returned", valid |-> TRUE, message |-> <<>>]

NoSyn == [status |-> "none", valid |-> FALSE, message |-> <<>>]

\* Inputs: up to MaxStmts statement texts joined by semicolons, with or
\* without a trailing semicolon.
StmtTexts ==
    { <<"SELECT", "body">>, <<"select", "body">>,
      <<"SELECT", "body", "LIMIT", "0">>, <<"select", "body", "limit", "10">>,
      <<"SELECT", "body", "LIMIT", "1000">>, <<"SELECT", "body", "LIMIT", "500">>,
      <<"DELETE", "body">>, <<"DROP", "body">>, <<"INSERT", "body">>,
      <<"UPDATE", "body">>,
      <<"SELEC", "body">>, <<"SELECT", "body", "LIMIT">>,
      <<"SELECT", "body", "'">>, <<>> }

RECURSIVE JoinStmts(_)
JoinStmts(ss) ==
    IF ss = <<>> THEN <<>>
    ELSE IF Len(ss) = 1 THEN ss[1]
    ELSE ss[1] \o <<";">> \o JoinStmts(Tail(ss))

SqlInputs ==
    LET joined == {JoinStmts(ss) : ss \in SeqsUpTo(StmtTexts, MaxStmts) \ {<<>>}}
    IN joined \cup {s \o <<";">> : s \in joined}

ConfiguredMaxRows == {500, 1000}

NoComplete == [called |-> FALSE, text |-> <<>>]

CsvIdle ==
    /\ csvBom = FALSE /\ csvColumns = <<>> /\ csvRows = <<>> /\ csvChunkSize = 1
    /\ csvPc = "unused" /\ csvI = 0 /\ csvOut = <<>> /\ csvComplete = NoComplete

JsonIdle ==
    /\ jsonPretty = FALSE /\ jsonColumns = <<>> /\ jsonRows = <<>> /\ jsonChunkSize = 1
    /\ jsonPc = "unused" /\ jsonI = 0 /\ jsonJ = 0 /\ jsonRowIndex = 0
    /\ jsonOut = <<>> /\ jsonComplete = NoComplete

NoOptions == [pretty |-> FALSE, include_bom |-> FALSE]

ExpIdle ==
    /\ expFormat = "csv" /\ expHasResult = FALSE /\ expColumns = <<>> /\ expRows = <<>>
    /\ expTotalRows = 0 /\ expOptions = NoOptions /\ expPc = "unused" /\ expHttp = 0
    /\ expFault = "none" /\ expHistory = <<>> /\ expAuditRaised = FALSE
    /\ expEstimate = -1 /\ expStreamed = FALSE /\ expRowsProcessed = 0
    /\ expGen = <<>> /\ expOut = <<>>

\* two requests can be in flight at once
Procs == {1, 2}

NoCall == [connection_id |-> 0, metadata_type |-> "none", schema_name |-> "none",
           table_name |-> "none", use_cache |-> FALSE, n |-> 0]

HstIdle ==
    /\ hstEntries = <<>>
    /\ hstPc = [p \in Procs |-> "unused"]
    /\ hstConn = [p \in Procs |-> 0]
    /\ hstClock = 0

MdIdle ==
    /\ mdCache = EmptyBag
    /\ mdNow = 0
    /\ mdPc = [p \in Procs |-> "unused"]
    /\ mdCall = [p \in Procs |-> NoCall]
    /\ mdResult = [p \in Procs |-> "none"]
    /\ mdCalls = 0

QryIdle ==
    /\ qrySql = <<>> /\ qryConnExists = FALSE /\ qryPc = "unused" /\ qryGate = NoResult
    /\ qryRaised = "none" /\ qryStage = "none" /\ qryExecuted = <<>>
    /\ qryHistory = <<>> /\ qryHttp = 0

InitGate ==
    /\ gateSql \in SqlInputs
    /\ maxRows \in ConfiguredMaxRows
    /\ gatePc = "idle"
    /\ gateRes = NoResult
    /\ gateRes2 = NoResult
    /\ synRes = NoSyn
    /\ CsvIdle
    /\ JsonIdle
    /\ ExpIdle
    /\ QryIdle
    /\ HstIdle
    /\ MdIdle

\* a call validate_and_transform_query(sql)
Validate ==
    /\ gatePc = "idle"
    /\ gateRes' = validate_and_transform_query(gateSql)
    /\ gatePc' = "validated"
    /\ UNCHANGED <<gateSql, maxRows, gateRes2, synRes>>
    /\ UNCHANGED notGate

\* a second call, on the SQL the first call returned
Revalidate ==
    /\ gatePc = "validated"
    /\ gateRes.status = "ok"
    /\ gateRes2' = validate_and_transform_query(gateRes.sql)
    /\ gatePc' = "revalidated"
    /\ UNCHANGED <<gateSql, maxRows, gateRes, synRes>>
    /\ UNCHANGED notGate

\* a call validate_sql_syntax(sql)
SyntaxCheck ==
    /\ synRes.status = "none"
    /\ synRes' = validate_sql_syntax(gateSql)
    /\ UNCHANGED <<gateSql, maxRows, gatePc, gateRes, gateRes2>>
    /\ UNCHANGED notGate

NextGate == Validate \/ Revalidate \/ SyntaxCheck

SpecGate == InitGate /\ [][NextGate]_vars

(***************************************************************************)
(* Claims on the SQL gate                                                  *)
(***************************************************************************)
Parsed == parse_one(gateSql)

\* number of statements written in the string
StatementCount(sql) ==
    LET chunks == SplitFrom(sql, 1, << <<>> >>)
    IN Cardinality({k \in 1..Len(chunks) : chunks[k] # <<>>})

\* C1: an input whose parsed top-level statement is not a SELECT makes
\* validate_and_transform_query raise SQLValidationError (the statement-kind
\* message) and no transformed SQL is returned.
C1_NonSelectRejected ==
    (gatePc # "idle" /\ Parsed.err = "none" /\ Parsed.ast.kind # "Select")
        => /\ gateRes.status = "SQLValidationError"
           /\ gateRes.message = KindMessage
           /\ gateRes.sql = <<>>

C1_Witness ==
    /\ gatePc = "validated"
    /\ gateSql = <<"DROP", "body">>
    /\ gateRes.status = "SQLValidationError"

\* C2: an input holding two or more statements is rejected with
\* SQLValidationError whatever its first statement is; no transformed SQL is
\* returned for it.
C2_MultiStatementRejected ==
    (gatePc # "idle" /\ StatementCount(gateSql) >= 2)
        => /\ gateRes.status = "SQLValidationError"
           /\ gateRes.sql = <<>>

\* C3: a SELECT without a top-level LIMIT gets LIMIT N injected and the
\* message "LIMIT N automatically applied", N being the configured
\* max_query_result_rows.
C3_InjectsConfiguredLimit ==
    (gatePc # "idle" /\ Parsed.err = "none" /\ Parsed.ast.kind = "Select"
                     /\ Parsed.ast.limit = <<>>)
        => /\ gateRes.status = "ok"
           /\ gateRes.sql = <<"SELECT", "body", "LIMIT", IntToStr(maxRows)>>
           /\ gateRes.message = AppliedMessage(maxRows)

\* C4: a SELECT that carries a top-level LIMIT keeps exactly that LIMIT in
\* the returned SQL and the message is the empty string.
C4_ExistingLimitKept ==
    (gatePc # "idle" /\ Parsed.err = "none" /\ Parsed.ast.kind = "Select"
                     /\ Parsed.ast.limit # <<>>)
        => /\ gateRes.status = "ok"
           /\ gateRes.sql = <<"SELECT", "body", "LIMIT">> \o Parsed.ast.limit
           /\ gateRes.message = <<>>

C4_Witness ==
    /\ gatePc = "validated"
    /\ gateSql = <<"SELECT", "body", "LIMIT", "0">>
    /\ gateRes.sql = <<"SELECT", "body", "LIMIT", "0">>

\* C5: applying validate_and_transform_query to the SQL it returned succeeds,
\* returns that SQL unchanged and the empty message.
C5_Idempotent ==
    gatePc = "revalidated"
        => /\ gateRes2.status = "ok"
           /\ gateRes2.sql = gateRes.sql
           /\ gateRes2.message = <<>>

C5_Witness ==
    /\ gatePc = "revalidated"
    /\ gateSql = <<"select", "body">>
    /\ gateRes.message = AppliedMessage(1000)
    /\ gateRes2.message = <<>>

\* C6: validate_sql_syntax never raises; it returns (false, a message with
\* "syntax") exactly when the text cannot be parsed and (true, "") otherwise,
\* and it returns false exactly when validate_and_transform_query raises the
\* syntax-wrapping SQLValidationError.
C6_SyntaxNeverRaises ==
    synRes.status # "none"
        => /\ synRes.status = "returned"
           /\ (~synRes.valid <=> Parsed.err # "none")
           /\ (~synRes.valid => synRes.message = SyntaxMessage)
           /\ (synRes.valid => synRes.message = <<>>)
           /\ (gatePc # "idle" =>
                 (~synRes.valid <=> /\ gateRes.status = "SQLValidationError"
                                    /\ gateRes.message = SyntaxMessage))

(***************************************************************************)
(* CSV formatter: csv_formatter.py.  Text is a sequence of characters;     *)
(* "CR", "LF" and "BOM" are the carriage return, the line feed and U+FEFF. *)
(***************************************************************************)
Q == "\""
CRLF == <<"CR", "LF">>
BOM == <<"BOM">>

\* cell values: t is the Python type, v is str(value)
None == [t |-> "None", v |-> <<"N", "o", "n", "e">>]
Int1 == [t |-> "int", v |-> <<"1">>]
StrA == [t |-> "str", v |-> <<"a">>]
StrQuoted == [t |-> "str", v |-> <<",", Q, "LF">>]

\* column names and their text
ColNames == {"id", "na,me"}
NameText(name) ==
    CASE name = "id" -> <<"i", "d">>
      [] name = "na,me" -> <<"n", "a", ",", "m", "e">>

\* dict.get(key): None for a missing key
Get(row, key) == IF key \in DOMAIN row THEN row[key] ELSE None

\* the csv writer (QUOTE_MINIMAL, quotechar '"', doublequote, CRLF)
NeedsQuote(field) ==
    \E k \in 1..Len(field) : field[k] \in {",", Q, "CR", "LF"}

RECURSIVE DoubleQuotes(_)
DoubleQuotes(field) ==
    IF field = <<>> THEN <<>>
    ELSE (IF Head(field) = Q THEN <<Q, Q>> ELSE <<Head(field)>>)
         \o DoubleQuotes(Tail(field))

WriteField(field) ==
    IF NeedsQuote(field) THEN <<Q>> \o DoubleQuotes(field) \o <<Q>> ELSE field

RECURSIVE JoinFields(_)
JoinFields(fields) ==
    IF fields = <<>> THEN <<>>
    ELSE IF Len(fields) = 1 THEN WriteField(fields[1])
    ELSE WriteField(fields[1]) \o <<",">> \o JoinFields(Tail(fields))

\* writer.writerow: a record made of one empty field is written quoted
WriteRow(fields) ==
    (IF Len(fields) = 1 /\ fields[1] = <<>> THEN <<Q, Q>> ELSE JoinFields(fields))
    \o CRLF

\* DictWriter.writeheader
WriteHeader(columns) ==
    WriteRow([c \in 1..Len(columns) |-> NameText(columns[c])])

format_value_str(value) == value.v
format_value(value) == IF value.t = "None" THEN <<>> ELSE value.v

\* filtered_row written through DictWriter.writerow
WriteDictRow(columns, row) ==
    WriteRow([c \in 1..Len(columns) |-> format_value(Get(row, columns[c]))])

RECURSIVE WriteRows(_, _)
WriteRows(columns, chunk) ==
    IF chunk = <<>> THEN <<>>
    ELSE WriteDictRow(columns, Head(chunk)) \o WriteRows(columns, Tail(chunk))

\* an eager slice: every row from i on
SliceRest(rows, i, chunk_size) == SubSeq(rows, i + 1, Len(rows))

\* rows[i:i + chunk_size]
Slice(rows, i, chunk_size) == SubSeq(rows, i + 1, Min(i + chunk_size, Len(rows)))

HeaderInEveryChunk(i) == TRUE
HeaderInChunk(i) == i = 0

\* the buffer content of the loop iteration that starts at row index i
ChunkContent(columns, rows, i, chunk_size) ==
    (IF HeaderInChunk(i) THEN WriteHeader(columns) ELSE <<>>)
    \o WriteRows(columns, Slice(rows, i, chunk_size))

\* list(format_rows(columns, rows, chunk_size)) from loop index i on
RECURSIVE LoopChunks(_, _, _, _)
LoopChunks(columns, rows, i, chunk_size) ==
    IF i >= Len(rows) THEN <<>>
    ELSE LET content == ChunkContent(columns, rows, i, chunk_size)
         IN (IF content # <<>> THEN <<content>> ELSE <<>>)
            \o LoopChunks(columns, rows, i + chunk_size, chunk_size)

format_rows(include_bom, columns, rows, chunk_size) ==
    (IF include_bom THEN <<BOM>> ELSE <<>>) \o LoopChunks(columns, rows, 0, chunk_size)

format_complete(include_bom, columns, rows) ==
    Concat(format_rows(include_bom, columns, rows,
                       IF Len(rows) # 0 THEN Len(rows) ELSE 1))

\* Inputs
CsvRowSet ==
    { [k \in {"id", "na,me"} |-> IF k = "id" THEN Int1 ELSE StrA],
      [k \in {"id", "na,me"} |-> IF k = "id" THEN None ELSE StrQuoted],
      [k \in {"id", "na,me"} |-> None],
      [k \in {"id"} |-> Int1],
      [k \in {"na,me"} |-> None],
      [k \in {"id", "na,me", "extra"} |-> IF k = "id" THEN Int1 ELSE StrA],
      [k \in {"extra"} |-> StrA],
      [k \in {} |-> None] }

CsvColumnLists ==
    {cols \in SeqsUpTo(ColNames, MaxCols) :
        \A a, b \in 1..Len(cols) : cols[a] = cols[b] => a = b}

GateIdle ==
    /\ gateSql = <<>> /\ maxRows = 1000 /\ gatePc = "unused"
    /\ gateRes = NoResult /\ gateRes2 = NoResult
    /\ synRes = [NoSyn EXCEPT !.status = "unused"]

\* a CSVFormatter and a generator format_rows(columns, rows, chunk_size),
\* not yet started
InitCsv ==
    /\ GateIdle
    /\ JsonIdle
    /\ ExpIdle
    /\ QryIdle
    /\ HstIdle
    /\ MdIdle
    /\ csvBom \in BOOLEAN
    /\ csvColumns \in CsvColumnLists
    /\ csvRows \in SeqsUpTo(CsvRowSet, MaxRows)
    /\ csvChunkSize \in 1..MaxChunk
    /\ csvPc = "start"
    /\ csvI = 0
    /\ csvOut = <<>>
    /\ csvComplete = NoComplete

\* next(): the generator yields the BOM
CsvYieldBom ==
    /\ csvPc = "start"
    /\ csvBom
    /\ csvOut' = Append(csvOut, BOM)
    /\ csvPc' = "loop"
    /\ UNCHANGED <<csvBom, csvColumns, csvRows, csvChunkSize, csvI, csvComplete>>
    /\ UNCHANGED notCsv

InLoop == csvPc = "loop" \/ (csvPc = "start" /\ ~csvBom)

\* i is in range(0, stop, step), for a step that is not 0
InRange(i, stop, step) == IF step > 0 THEN i < stop ELSE i > stop

\* next(): one iteration of the loop over range(0, len(rows), chunk_size)
CsvYieldChunk ==
    /\ InLoop
    /\ csvChunkSize # 0
    /\ InRange(csvI, Len(csvRows), csvChunkSize)
    /\ LET content == ChunkContent(csvColumns, csvRows, csvI, csvChunkSize)
       IN csvOut' = IF content # <<>> THEN Append(csvOut, content) ELSE csvOut
    /\ csvI' = csvI + csvChunkSize
    /\ csvPc' = "loop"
    /\ UNCHANGED <<csvBom, csvColumns, csvRows, csvChunkSize, csvComplete>>
    /\ UNCHANGED notCsv

\* next(): the range is exhausted, the generator returns
CsvStop ==
    /\ InLoop
    /\ csvChunkSize # 0
    /\ ~InRange(csvI, Len(csvRows), csvChunkSize)
    /\ csvPc' = "done"
    /\ UNCHANGED <<csvBom, csvColumns, csvRows, csvChunkSize, csvI, csvOut, csvComplete>>
    /\ UNCHANGED notCsv

\* a call format_complete(columns, rows) on the same formatter and data
CsvFormatComplete ==
    /\ csvPc # "unused"
    /\ ~csvComplete.called
    /\ csvComplete' = [called |-> TRUE,
                       text |-> format_complete(csvBom, csvColumns, csvRows)]
    /\ UNCHANGED <<csvBom, csvColumns, csvRows, csvChunkSize, csvPc, csvI, csvOut>>
    /\ UNCHANGED notCsv

NextCsv == CsvYieldBom \/ CsvYieldChunk \/ CsvStop \/ CsvFormatComplete

SpecCsv == InitCsv /\ [][NextCsv]_vars

(***************************************************************************)
(* Claims on the CSV formatter                                             *)
(***************************************************************************)
\* A CSV reader (RFC 4180): the records of a text, each a sequence of
\* fields.  A line with nothing on it is a record of no field.
RECURSIVE CsvRead(_, _, _, _, _, _, _)
CsvRead(t, k, inq, started, field, rec, recs) ==
    IF k > Len(t)
    THEN IF started THEN Append(recs, Append(rec, field)) ELSE recs
    ELSE IF inq
         THEN IF t[k] = Q
              THEN IF k < Len(t) /\ t[k + 1] = Q
                   THEN CsvRead(t, k + 2, TRUE, TRUE, Append(field, Q), rec, recs)
                   ELSE CsvRead(t, k + 1, FALSE, TRUE, field, rec, recs)
              ELSE CsvRead(t, k + 1, TRUE, TRUE, Append(field, t[k]), rec, recs)
         ELSE CASE t[k] = Q ->
                     CsvRead(t, k + 1, TRUE, TRUE, field, rec, recs)
                [] t[k] = "," ->
                     CsvRead(t, k + 1, FALSE, TRUE, <<>>, Append(rec, field), recs)
                [] t[k] = "CR" /\ k < Len(t) /\ t[k + 1] = "LF" ->
                     CsvRead(t, k + 2, FALSE, FALSE, <<>>, <<>>,
                             Append(recs, IF started THEN Append(rec, field) ELSE rec))
                [] OTHER ->
                     CsvRead(t, k + 1, FALSE, TRUE, Append(field, t[k]), rec, recs)

CsvRecords(text) == CsvRead(text, 1, FALSE, FALSE, <<>>, <<>>, <<>>)

HeaderFields == [c \in 1..Len(csvColumns) |-> NameText(csvColumns[c])]

\* the fields a row must show: one per declared column, empty for a null or
\* missing value
ExpectedFields(row) ==
    [c \in 1..Len(csvColumns) |->
        IF csvColumns[c] \in DOMAIN row /\ row[csvColumns[c]].t # "None"
        THEN row[csvColumns[c]].v ELSE <<>>]

BomChunks == IF csvBom THEN 1 ELSE 0

\* the chunks after the BOM
DataChunks == SubSeq(csvOut, BomChunks + 1, Len(csvOut))

\* the rows of csvRows from position a to position b (1-based)
RowsFields(a, b) == [k \in 1..(b - a + 1) |-> ExpectedFields(csvRows[a + k - 1])]

\* C7: the chunks of format_rows, concatenated in order, are the text of
\* rendering the whole table in one pass, for every chunk_size >= 1.
C7_ChunksConcatToOnePass ==
    (csvPc = "done" /\ csvComplete.called)
        => Concat(csvOut) = csvComplete.text

C7_Witness ==
    /\ csvPc = "done" /\ csvComplete.called
    /\ Len(csvRows) = 3 /\ csvChunkSize = 2 /\ Len(DataChunks) = 2
    /\ Concat(csvOut) = csvComplete.text

\* C8: with BOM enabled the first chunk is the BOM alone; the next chunk is
\* the header row followed by at most chunk_size data rows; every later chunk
\* is at most chunk_size data rows without header; a finished stream holds
\* the header exactly once, before every data row.
C8_ChunkOrder ==
    /\ (csvBom /\ csvPc \in {"loop", "done"}) => (Len(csvOut) >= 1 /\ csvOut[1] = BOM)
    /\ \A k \in 1..Len(DataChunks) :
          LET recs == CsvRecords(DataChunks[k])
              from == (k - 1) * csvChunkSize + 1
              to == Min(k * csvChunkSize, Len(csvRows))
          IN IF k = 1
             THEN recs = <<HeaderFields>> \o RowsFields(from, to)
             ELSE recs = RowsFields(from, to)
    /\ csvPc = "done" =>
          /\ Len(DataChunks) >= 1
          /\ Head(CsvRecords(Concat(DataChunks))) = HeaderFields
          /\ Len(CsvRecords(Concat(DataChunks))) = 1 + Len(csvRows)

\* C9: format_complete on an empty row sequence returns the BOM (if enabled)
\* followed by exactly one header line and no data line.
C9_EmptyRowsKeepHeader ==
    (csvComplete.called /\ csvRows = <<>>)
        => csvComplete.text = (IF csvBom THEN BOM ELSE <<>>) \o WriteHeader(csvColumns)

\* C10: every data line has one field per declared column in declared order;
\* a null or missing value is an empty field and keys that are no declared
\* column add nothing.
C10_DataLineFields ==
    (csvPc = "done" /\ csvRows # <<>>)
        => Tail(CsvRecords(Concat(DataChunks))) = RowsFields(1, Len(csvRows))

C10_Witness ==
    /\ csvPc = "done"
    /\ csvColumns = <<"na,me", "id">>
    /\ Len(csvRows) = 2
    /\ DOMAIN csvRows[1] = {"extra"}
    /\ csvRows[2] = [k \in {"id", "na,me"} |-> IF k = "id" THEN None ELSE StrQuoted]
    /\ Tail(CsvRecords(Concat(DataChunks))) = << <<<<>>, <<>>>>, <<StrQuoted.v, <<>>>> >>

(***************************************************************************)
(* JSON formatter: json_formatter.py.  Text is a sequence of characters,   *)
(* "LF" is the newline.                                                    *)
(***************************************************************************)
BS == "\\"
SP == " "

\* json.dumps of a str: quotes, with the escapes of ensure_ascii=False
RECURSIVE JsonEscape(_)
JsonEscape(chars) ==
    IF chars = <<>> THEN <<>>
    ELSE (CASE Head(chars) = Q -> <<BS, Q>>
            [] Head(chars) = BS -> <<BS, BS>>
            [] Head(chars) = "LF" -> <<BS, "n">>
            [] Head(chars) = "CR" -> <<BS, "r">>
            [] OTHER -> <<Head(chars)>>)
         \o JsonEscape(Tail(chars))

JsonString(chars) == <<Q>> \o JsonEscape(chars) \o <<Q>>

\* json.dumps of a cell value
JsonValue(value) ==
    CASE value.t = "None" -> <<"n", "u", "l", "l">>
      [] value.t = "int" -> value.v
      [] OTHER -> JsonString(value.v)

\* newline and indentation of nesting level n under indent=2
RECURSIVE Spaces(_)
Spaces(n) == IF n <= 0 THEN <<>> ELSE <<SP>> \o Spaces(n - 1)

JsonIndent == 2

NewlineIndent(level) == <<"LF">> \o Spaces(JsonIndent * level)

RECURSIVE JoinWith(_, _)
JoinWith(items, sep) ==
    IF items = <<>> THEN <<>>
    ELSE IF Len(items) = 1 THEN items[1]
    ELSE items[1] \o sep \o JoinWith(Tail(items), sep)

\* json.dumps of a dict given as its (key, value) pairs in insertion order
JsonDumpsDict(pairs, pretty, level) ==
    LET items == [k \in 1..Len(pairs) |->
                    JsonString(NameText(pairs[k][1])) \o <<":", SP>> \o JsonValue(pairs[k][2])]
    IN IF pairs = <<>> THEN <<"{", "}">>
       ELSE IF pretty
            THEN <<"{">> \o NewlineIndent(level + 1)
                 \o JoinWith(items, <<",">> \o NewlineIndent(level + 1))
                 \o NewlineIndent(level) \o <<"}">>
            ELSE <<"{">> \o JoinWith(items, <<",", SP>>) \o <<"}">>

\* json.dumps of a list of dicts
JsonDumpsList(dicts, pretty) ==
    LET items == [k \in 1..Len(dicts) |-> JsonDumpsDict(dicts[k], pretty, 1)]
    IN IF dicts = <<>> THEN <<"[", "]">>
       ELSE IF pretty
            THEN <<"[">> \o NewlineIndent(1)
                 \o JoinWith(items, <<",">> \o NewlineIndent(1))
                 \o NewlineIndent(0) \o <<"]">>
            ELSE <<"[">> \o JoinWith(items, <<",", SP>>) \o <<"]">>

\* {col: row.get(col) for col in columns if col in row}
RECURSIVE FilteredRowDefaulting(_, _)
FilteredRowDefaulting(columns, row) ==
    IF columns = <<>> THEN <<>>
    ELSE << <<Head(columns), Get(row, Head(columns))>> >>
         \o FilteredRowDefaulting(Tail(columns), row)

RECURSIVE FilteredRow(_, _)
FilteredRow(columns, row) ==
    IF columns = <<>> THEN <<>>
    ELSE (IF Head(columns) \in DOMAIN row
          THEN << <<Head(columns), Get(row, Head(columns))>> >> ELSE <<>>)
         \o FilteredRow(Tail(columns), row)

\* f"  {line}" for every line of json_str, joined by newlines
RECURSIVE IndentLines(_)
IndentLines(text) ==
    IF text = <<>> THEN <<>>
    ELSE IF Head(text) = "LF" THEN <<"LF", SP, SP>> \o IndentLines(Tail(text))
    ELSE <<Head(text)>> \o IndentLines(Tail(text))

CommaInsideChunk(row_index, total_rows, j, chunk_len) == j < chunk_len - 1
CommaAfter(row_index, total_rows, j, chunk_len) == row_index < total_rows - 1

\* the text yielded for one row
JsonRowChunk(columns, row, pretty, row_index, total_rows, j, chunk_len) ==
    LET json_str == JsonDumpsDict(FilteredRow(columns, row), pretty, 0)
        indented == IF pretty THEN <<SP, SP>> \o IndentLines(json_str) ELSE json_str
    IN indented
       \o (IF CommaAfter(row_index, total_rows, j, chunk_len) THEN <<",">> ELSE <<>>)
       \o (IF pretty THEN <<"LF">> ELSE <<>>)

JsonOpen(pretty) == IF pretty THEN <<"[", "LF">> ELSE <<"[">>
JsonClose(pretty) == IF pretty THEN <<"]", "LF">> ELSE <<"]">>

json_format_complete(pretty, columns, rows) ==
    JsonDumpsList([k \in 1..Len(rows) |-> FilteredRow(columns, rows[k])], pretty)

\* rows handed to the JSON formatter: a full row with a string to escape, a
\* null with a missing column, a row with an undeclared key, an empty row
JsonRowSet ==
    { [k \in {"id", "na,me"} |-> IF k = "id" THEN Int1 ELSE StrQuoted],
      [k \in {"id"} |-> None],
      [k \in {"id", "na,me", "extra"} |-> IF k = "id" THEN Int1 ELSE StrA],
      [k \in {} |-> None] }

\* a JSONFormatter and a generator format_rows(columns, rows, chunk_size),
\* not yet started
InitJson ==
    /\ GateIdle
    /\ CsvIdle
    /\ ExpIdle
    /\ QryIdle
    /\ HstIdle
    /\ MdIdle
    /\ jsonPretty \in BOOLEAN
    /\ jsonColumns \in CsvColumnLists
    /\ jsonRows \in SeqsUpTo(JsonRowSet, MaxRows)
    /\ jsonChunkSize \in 1..MaxChunk
    /\ jsonPc = "start"
    /\ jsonI = 0
    /\ jsonJ = 0
    /\ jsonRowIndex = 0
    /\ jsonOut = <<>>
    /\ jsonComplete = NoComplete

\* next(): the array is opened
JsonYieldOpen ==
    /\ jsonPc = "start"
    /\ jsonOut' = Append(jsonOut, JsonOpen(jsonPretty))
    /\ jsonPc' = "loop"
    /\ UNCHANGED <<jsonPretty, jsonColumns, jsonRows, jsonChunkSize, jsonI, jsonJ,
                   jsonRowIndex, jsonComplete>>
    /\ UNCHANGED notJson

\* next(): the next row of the current chunk is yielded
JsonYieldRow ==
    /\ jsonPc = "loop"
    /\ jsonChunkSize # 0
    /\ InRange(jsonI, Len(jsonRows), jsonChunkSize)
    /\ LET chunk == Slice(jsonRows, jsonI, jsonChunkSize)
       IN /\ jsonOut' = Append(jsonOut,
                               JsonRowChunk(jsonColumns, chunk[jsonJ + 1], jsonPretty,
                                            jsonRowIndex, Len(jsonRows), jsonJ, Len(chunk)))
          /\ IF jsonJ + 1 < Len(chunk)
             THEN jsonJ' = jsonJ + 1 /\ jsonI' = jsonI
             ELSE jsonJ' = 0 /\ jsonI' = jsonI + jsonChunkSize
    /\ jsonRowIndex' = jsonRowIndex + 1
    /\ UNCHANGED <<jsonPretty, jsonColumns, jsonRows, jsonChunkSize, jsonPc, jsonComplete>>
    /\ UNCHANGED notJson

\* next(): the range is exhausted, the array is closed
JsonYieldClose ==
    /\ jsonPc = "loop"
    /\ jsonChunkSize # 0
    /\ ~InRange(jsonI, Len(jsonRows), jsonChunkSize)
    /\ jsonOut' = Append(jsonOut, JsonClose(jsonPretty))
    /\ jsonPc' = "closed"
    /\ UNCHANGED <<jsonPretty, jsonColumns, jsonRows, jsonChunkSize, jsonI, jsonJ,
                   jsonRowIndex, jsonComplete>>
    /\ UNCHANGED notJson

\* next(): the generator returns
JsonStop ==
    /\ jsonPc = "closed"
    /\ jsonPc' = "done"
    /\ UNCHANGED <<jsonPretty, jsonColumns, jsonRows, jsonChunkSize, jsonI, jsonJ,
                   jsonRowIndex, jsonOut, jsonComplete>>
    /\ UNCHANGED notJson

\* a call format_complete(columns, rows) on the same formatter and data
JsonFormatComplete ==
    /\ jsonPc # "unused"
    /\ ~jsonComplete.called
    /\ jsonComplete' = [called |-> TRUE,
                        text |-> json_format_complete(jsonPretty, jsonColumns, jsonRows)]
    /\ UNCHANGED <<jsonPretty, jsonColumns, jsonRows, jsonChunkSize, jsonPc, jsonI, jsonJ,
                   jsonRowIndex, jsonOut>>
    /\ UNCHANGED notJson

NextJson == JsonYieldOpen \/ JsonYieldRow \/ JsonYieldClose \/ JsonStop \/ JsonFormatComplete

SpecJson == InitJson /\ [][NextJson]_vars

(***************************************************************************)
(* Claims on the JSON formatter                                            *)
(***************************************************************************)
JsonWs == {SP, "LF"}
Digits == {"0", "1", "2", "3", "4", "5", "6", "7", "8", "9"}

JBad(s) == [s EXCEPT !.st = "bad"]
JEndValue(s, value) ==
    [s EXCEPT !.st = "aftval", !.pairs = Append(@, <<s.key, value>>), !.buf = <<>>]
JCloseObject(s) ==
    [s EXCEPT !.st = "aftobj", !.objs = Append(@, s.pairs), !.pairs = <<>>]

JAfterValue(s, c) ==
    CASE c \in JsonWs -> [s EXCEPT !.st = "aftval"]
      [] c = "," -> [s EXCEPT !.st = "okey"]
      [] c = "}" -> JCloseObject(s)
      [] OTHER -> JBad(s)

\* one character of a JSON reader for an array of flat objects
JStep(s, c) ==
    CASE s.st = "start" ->
            (CASE c \in JsonWs -> s [] c = "[" -> [s EXCEPT !.st = "first"] [] OTHER -> JBad(s))
      [] s.st = "first" ->
            (CASE c \in JsonWs -> s
               [] c = "]" -> [s EXCEPT !.st = "end"]
               [] c = "{" -> [s EXCEPT !.st = "okey0"]
               [] OTHER -> JBad(s))
      [] s.st = "next" ->
            (CASE c \in JsonWs -> s [] c = "{" -> [s EXCEPT !.st = "okey0"] [] OTHER -> JBad(s))
      [] s.st = "okey0" ->
            (CASE c \in JsonWs -> s
               [] c = Q -> [s EXCEPT !.st = "str", !.tgt = "key", !.buf = <<>>]
               [] c = "}" -> JCloseObject(s)
               [] OTHER -> JBad(s))
      [] s.st = "okey" ->
            (CASE c \in JsonWs -> s
               [] c = Q -> [s EXCEPT !.st = "str", !.tgt = "key", !.buf = <<>>]
               [] OTHER -> JBad(s))
      [] s.st = "colon" ->
            (CASE c \in JsonWs -> s [] c = ":" -> [s EXCEPT !.st = "val"] [] OTHER -> JBad(s))
      [] s.st = "val" ->
            (CASE c \in JsonWs -> s
               [] c = Q -> [s EXCEPT !.st = "str", !.tgt = "val", !.buf = <<>>]
               [] c = "n" -> [s EXCEPT !.st = "lit", !.buf = <<"n">>]
               [] c \in Digits -> [s EXCEPT !.st = "num", !.buf = <<c>>]
               [] OTHER -> JBad(s))
      [] s.st = "lit" ->
            LET b == Append(s.buf, c)
            IN IF b = <<"n", "u", "l", "l">> THEN JEndValue(s, None)
               ELSE IF b = SubSeq(<<"n", "u", "l", "l">>, 1, Len(b))
                    THEN [s EXCEPT !.buf = b] ELSE JBad(s)
      [] s.st = "num" ->
            IF c \in Digits THEN [s EXCEPT !.buf = Append(@, c)]
            ELSE JAfterValue(JEndValue(s, [t |-> "int", v |-> s.buf]), c)
      [] s.st = "aftval" -> JAfterValue(s, c)
      [] s.st = "aftobj" ->
            (CASE c \in JsonWs -> s
               [] c = "," -> [s EXCEPT !.st = "next"]
               [] c = "]" -> [s EXCEPT !.st = "end"]
               [] OTHER -> JBad(s))
      [] s.st = "end" -> IF c \in JsonWs THEN s ELSE JBad(s)
      [] s.st = "str" ->
            (CASE c = BS -> [s EXCEPT !.st = "esc"]
               [] c = Q -> IF s.tgt = "key"
                           THEN [s EXCEPT !.st = "colon", !.key = s.buf, !.buf = <<>>]
                           ELSE JEndValue(s, [t |-> "str", v |-> s.buf])
               [] c \in {"LF", "CR"} -> JBad(s)
               [] OTHER -> [s EXCEPT !.buf = Append(@, c)])
      [] s.st = "esc" ->
            (CASE c = "n" -> [s EXCEPT !.st = "str", !.buf = Append(@, "LF")]
               [] c = "r" -> [s EXCEPT !.st = "str", !.buf = Append(@, "CR")]
               [] c \in {Q, BS} -> [s EXCEPT !.st = "str", !.buf = Append(@, c)]
               [] OTHER -> JBad(s))
      [] OTHER -> s

\* the reader run over the characters lo..hi of a text
RECURSIVE JRead(_, _, _, _)
JRead(t, lo, hi, s) ==
    IF lo > hi THEN s
    ELSE IF lo = hi THEN JStep(s, t[lo])
    ELSE LET mid == (lo + hi) \div 2
             left == JRead(t, lo, mid, s)
         IN IF left.st = "bad" THEN left ELSE JRead(t, mid + 1, hi, left)

\* the parse of a text: ok iff it is one JSON array of objects
JsonParse(text) ==
    LET s == JRead(text, 1, Len(text), [st |-> "start", objs |-> <<>>, pairs |-> <<>>,
                                        key |-> <<>>, buf |-> <<>>, tgt |-> "key"])
    IN [ok |-> s.st = "end", objs |-> s.objs]

\* the object a row must be written as: the declared columns that are keys
\* of the row, in declared order, each with the value of the row
ExpectedObject(columns, row) ==
    LET present == SelectSeq(columns, LAMBDA c : c \in DOMAIN row)
    IN [k \in 1..Len(present) |-> <<NameText(present[k]), row[present[k]]>>]

ExpectedObjects(columns, rows) ==
    [k \in 1..Len(rows) |-> ExpectedObject(columns, rows[k])]

\* C11: the chunks of JSONFormatter.format_rows, concatenated, are one JSON
\* array: '[', the row objects in input order with exactly one comma between
\* consecutive objects, ']'; its length is the number of input rows.
C11_JsonArrayOfRows ==
    jsonPc \in {"closed", "done"}
        => LET parsed == JsonParse(Concat(jsonOut))
           IN /\ parsed.ok
              /\ Len(parsed.objs) = Len(jsonRows)
              /\ parsed.objs = ExpectedObjects(jsonColumns, jsonRows)

C11_Witness ==
    /\ jsonPc = "done"
    /\ Len(jsonRows) = 3 /\ jsonChunkSize = 2 /\ ~jsonPretty
    /\ jsonColumns = <<"id">>
    /\ \A k \in 1..3 : jsonRows[k] = [c \in {"id"} |-> None]
    /\ Concat(jsonOut) =
          <<"[", "{", Q, "i", "d", Q, ":", SP, "n", "u", "l", "l", "}", ",",
                 "{", Q, "i", "d", Q, ":", SP, "n", "u", "l", "l", "}", ",",
                 "{", Q, "i", "d", Q, ":", SP, "n", "u", "l", "l", "}", "]">>

Keys(obj) == [k \in 1..Len(obj) |-> obj[k][1]]

\* what a parsed text shows for the rows: keys are exactly the declared
\* columns present in the row, in declared order; null is kept as null
RowObjectsAsDeclared(text) ==
    LET parsed == JsonParse(text)
    IN /\ parsed.ok
       /\ Len(parsed.objs) = Len(jsonRows)
       /\ \A k \in 1..Len(jsonRows) :
             LET obj == parsed.objs[k]
                 row == jsonRows[k]
                 present == SelectSeq(jsonColumns, LAMBDA x : x \in DOMAIN row)
             IN /\ Keys(obj) = [c \in 1..Len(present) |-> NameText(present[c])]
                /\ \A c \in 1..Len(jsonColumns) :
                      (jsonColumns[c] \in DOMAIN row /\ row[jsonColumns[c]] = None)
                         => \E p \in 1..Len(obj) : obj[p] = <<NameText(jsonColumns[c]), None>>

\* C12: every row object written by format_rows and by format_complete has
\* as keys exactly the declared columns present in the row, in declared
\* order; a missing column is omitted, a null value is written as null and
\* undeclared keys are dropped.
C12_RowObjectKeys ==
    /\ jsonPc \in {"closed", "done"} => RowObjectsAsDeclared(Concat(jsonOut))
    /\ jsonComplete.called => RowObjectsAsDeclared(jsonComplete.text)

C12_Witness ==
    /\ jsonPc = "done" /\ jsonComplete.called
    /\ jsonColumns = <<"na,me", "id">>
    /\ Len(jsonRows) = 2
    /\ jsonRows[1] = [k \in {"id", "na,me", "extra"} |-> IF k = "id" THEN Int1 ELSE StrA]
    /\ jsonRows[2] = [k \in {"id"} |-> None]
    /\ JsonParse(jsonComplete.text).objs =
          << << <<NameText("na,me"), StrA>>, <<NameText("id"), Int1>> >>,
             << <<NameText("id"), None>> >> >>

(***************************************************************************)
(* Export service: export_service.py, stream_exporter.py                   *)
(***************************************************************************)
\* list(JSONFormatter(pretty).format_rows(columns, rows, chunk_size))
json_format_rows(pretty, columns, rows, chunk_size) ==
    <<JsonOpen(pretty)>>
    \o [k \in 1..Len(rows) |->
          LET j == (k - 1) % chunk_size
              chunk == Slice(rows, (k - 1) - j, chunk_size)
          IN JsonRowChunk(columns, rows[k], pretty, k - 1, Len(rows), j, Len(chunk))]
    \o <<JsonClose(pretty)>>

CsvDefaultChunkSize == 1000
JsonDefaultChunkSize == 1000
CsvDefaultBom == TRUE

STREAMING_THRESHOLD == 10000
LARGE_DATASET_THRESHOLD == 10000
STREAM_CHUNK_SIZE == 1000

should_stream(row_count) == row_count > STREAMING_THRESHOLD

IsLargeInclusive(row_count) == row_count >= LARGE_DATASET_THRESHOLD
is_large_dataset(row_count) == row_count > LARGE_DATASET_THRESHOLD

\* StreamExporter.stream_csv: the chunks of self.csv_formatter, a CSVFormatter()
StreamCsvNoBom(columns, rows, options) ==
    format_rows(FALSE, columns, rows, STREAM_CHUNK_SIZE)
stream_csv(columns, rows, options) ==
    format_rows(CsvDefaultBom, columns, rows, STREAM_CHUNK_SIZE)

\* StreamExporter.stream_json: the chunks of a JSONFormatter(pretty=options.pretty)
stream_json(columns, rows, options) ==
    json_format_rows(options.pretty, columns, rows, STREAM_CHUNK_SIZE)

\* the plain branch of export_csv: CSVFormatter(include_bom=True)
PlainCsv(columns, rows, options) ==
    format_rows(TRUE, columns, rows, CsvDefaultChunkSize)

\* the plain branch of export_json: JSONFormatter(pretty=options.pretty)
PlainJson(columns, rows, options) ==
    json_format_rows(options.pretty, columns, rows, JsonDefaultChunkSize)

\* list(ExportService.export_csv(data, options))
export_csv(columns, rows, total_rows, options) ==
    IF is_large_dataset(total_rows)
    THEN stream_csv(columns, rows, options)
    ELSE PlainCsv(columns, rows, options)

\* list(ExportService.export_json(data, options))
export_json(columns, rows, total_rows, options) ==
    IF is_large_dataset(total_rows)
    THEN stream_json(columns, rows, options)
    ELSE PlainJson(columns, rows, options)

(***************************************************************************)
(* Size estimation: StreamExporter.estimate_size_bytes.  The average is a  *)
(* Python float (IEEE 754 binary64, round to nearest, ties to even).  A    *)
(* float is modelled exactly: a sequence of bits, most significant first,  *)
(* and a scale; its value is the number the bits spell divided by 2^scale. *)
(***************************************************************************)
FloatMantissaBits == 53

RECURSIVE BinDigits(_)
BinDigits(n) == IF n = 0 THEN <<>> ELSE Append(BinDigits(n \div 2), n % 2)

RECURSIVE BitsToInt(_)
BitsToInt(bits) ==
    IF bits = <<>> THEN 0
    ELSE 2 * BitsToInt(SubSeq(bits, 1, Len(bits) - 1)) + bits[Len(bits)]

\* the first n binary digits of r / k after the point, for r < k
RECURSIVE FracDigits(_, _, _)
FracDigits(r, k, n) ==
    IF n = 0 THEN <<>>
    ELSE <<(2 * r) \div k>> \o FracDigits((2 * r) % k, k, n - 1)

\* what is left of r after these n digits
RECURSIVE FracRest(_, _, _)
FracRest(r, k, n) ==
    IF n = 0 \/ r = 0 THEN r ELSE FracRest((2 * r) % k, k, n - 1)

RECURSIVE StripZeros(_)
StripZeros(bits) ==
    IF bits # <<>> /\ Head(bits) = 0 THEN StripZeros(Tail(bits)) ELSE bits

RECURSIVE Increment(_)
Increment(bits) ==
    IF bits = <<>> THEN <<1>>
    ELSE IF bits[Len(bits)] = 0 THEN [bits EXCEPT ![Len(bits)] = 1]
    ELSE Append(Increment(SubSeq(bits, 1, Len(bits) - 1)), 0)

\* the float nearest to the number the bits spell (plus something below the
\* last bit when sticky)
RoundFloat(bits, scale, sticky) ==
    LET sig == StripZeros(bits)
        drop == Len(sig) - FloatMantissaBits
    IN IF drop <= 0 THEN [bits |-> sig, scale |-> scale]
       ELSE LET kept == SubSeq(sig, 1, FloatMantissaBits)
                guard == sig[FloatMantissaBits + 1]
                rest == sticky \/ \E i \in (FloatMantissaBits + 2)..Len(sig) : sig[i] = 1
                up == guard = 1 /\ (rest \/ kept[FloatMantissaBits] = 1)
            IN [bits |-> IF up THEN Increment(kept) ELSE kept, scale |-> scale - drop]

\* b / k of two ints, b >= 0 and k > 0: true division
FloatDiv(b, k) ==
    LET n == FloatMantissaBits + 8
    IN RoundFloat(BinDigits(b \div k) \o FracDigits(b % k, k, n), n,
                  FracRest(b % k, k, n) # 0)

\* the bits of (bits * t), from the least significant bit on
RECURSIVE TimesInt(_, _, _)
TimesInt(bits, t, carry) ==
    IF bits = <<>> THEN BinDigits(carry)
    ELSE LET v == bits[Len(bits)] * t + carry
             low == v % 2
         IN IF low = 0
            THEN Append(TimesInt(SubSeq(bits, 1, Len(bits) - 1), t, v \div 2), 0)
            ELSE Append(TimesInt(SubSeq(bits, 1, Len(bits) - 1), t, v \div 2), 1)

\* x * t of a float and an int t >= 0
FloatTimes(x, t) ==
    IF x.bits = <<>> THEN x
    ELSE RoundFloat(TimesInt(x.bits, t, 0), x.scale, FALSE)

\* int(x): the integer part
FloatToInt(x) ==
    IF x.scale < 0 THEN BitsToInt(x.bits \o [i \in 1..(0 - x.scale) |-> 0])
    ELSE IF x.scale >= Len(x.bits) THEN 0
    ELSE BitsToInt(SubSeq(x.bits, 1, Len(x.bits) - x.scale))

\* len(chunk.encode('utf-8')): the BOM takes three bytes, the other
\* characters of the model one
Utf8Len(text) ==
    Len(text) + 2 * Cardinality({i \in 1..Len(text) : text[i] = "BOM"})

RECURSIVE SumBytes(_)
SumBytes(chunks) ==
    IF chunks = <<>> THEN 0 ELSE Utf8Len(Head(chunks)) + SumBytes(Tail(chunks))

SampleRows == 10

MultiplierLen(rows, total_rows) == Len(rows)
Multiplier(rows, total_rows) == total_rows

estimate_size_bytes(columns, rows, total_rows, format) ==
    IF Len(rows) = 0 THEN 0
    ELSE LET sample_size == Min(SampleRows, Len(rows))
             sample_rows == SubSeq(rows, 1, sample_size)
             sample_chunks ==
                 IF format = "csv"
                 THEN format_rows(CsvDefaultBom, columns, sample_rows, CsvDefaultChunkSize)
                 ELSE json_format_rows(FALSE, columns, sample_rows, JsonDefaultChunkSize)
             sample_bytes == SumBytes(sample_chunks)
             avg_bytes_per_row == FloatDiv(sample_bytes, sample_size)
         IN FloatToInt(FloatTimes(avg_bytes_per_row, Multiplier(rows, total_rows)))

(***************************************************************************)
(* Export endpoints: api/exports.py                                        *)
(***************************************************************************)
\* ck_export_history_status
AllowedStatuses == {"success", "failed", "cancelled"}

\* ExportService.create_export_history: the record is stored when the commit
\* succeeds, that is when the database is up and the record passes the
\* CHECK constraints of export_history; otherwise the call raises.
SinkAccepts(record, db_ok) ==
    /\ db_ok
    /\ record.status \in AllowedStatuses
    /\ record.row_count >= 0
    /\ record.file_size_bytes >= 0

\* what the except clause around the audit block leaves to run next
AfterAuditPropagating(raised) == IF raised THEN "error" ELSE "respond"
AfterAudit(raised) == "respond"

\* the record of the audit block and the record of the outer except clause
CompletedRecord(format, row_count, size) ==
    [format |-> format, row_count |-> row_count, file_size_bytes |-> size,
     status |-> "completed"]
\* (file_size_bytes is left out there: NULL, written 0 here, passes the CHECK)
FailedRecord(format) ==
    [format |-> format, row_count |-> 0, file_size_bytes |-> 0, status |-> "failed"]

Handed(record, db_ok) ==
    [record |-> record, db_ok |-> db_ok, stored |-> SinkAccepts(record, db_ok)]

\* Inputs
ExpRowSet ==
    { [k \in {"id", "na,me"} |-> IF k = "id" THEN Int1 ELSE StrQuoted],
      [k \in {"id"} |-> None] }

ExpColumnLists == CsvColumnLists \ {<<>>}

ExpTotalRows == {0, 1, LARGE_DATASET_THRESHOLD, LARGE_DATASET_THRESHOLD + 1}

ExpOptionsSet == [pretty : BOOLEAN, include_bom : BOOLEAN]

\* the audit block can fail in the estimate or in the database
AuditFaults == {"none", "estimate", "db"}
\* an exception of the handler outside the audit block
HandlerFaults == {"none", "before_audit", "after_audit"}

\* a request POST /api/exports/csv or /json, not yet handled
InitExport ==
    /\ GateIdle /\ CsvIdle /\ JsonIdle /\ QryIdle /\ HstIdle /\ MdIdle
    /\ expFormat \in {"csv", "json"}
    /\ expHasResult \in BOOLEAN
    /\ IF expHasResult
       THEN /\ expColumns \in ExpColumnLists
            /\ expRows \in SeqsUpTo(ExpRowSet, MaxRows)
            /\ expTotalRows \in ExpTotalRows
       ELSE expColumns = <<>> /\ expRows = <<>> /\ expTotalRows = 0
    /\ expOptions \in ExpOptionsSet
    /\ expPc = "request"
    /\ expHttp = 0
    /\ expFault = "none"
    /\ expHistory = <<>>
    /\ expAuditRaised = FALSE
    /\ expEstimate = -1
    /\ expStreamed = FALSE
    /\ expRowsProcessed = 0
    /\ expGen = <<>>
    /\ expOut = <<>>

ExportChunks ==
    IF expFormat = "csv"
    THEN export_csv(expColumns, expRows, expTotalRows, expOptions)
    ELSE export_json(expColumns, expRows, expTotalRows, expOptions)

\* the handler answers 400: no query_result, or total_rows is 0
ExportReject ==
    /\ expPc = "request"
    /\ ~expHasResult \/ expTotalRows = 0
    /\ expHttp' = 400
    /\ expPc' = "rejected"
    /\ UNCHANGED <<expFormat, expHasResult, expColumns, expRows, expTotalRows, expOptions,
                   expFault, expHistory, expAuditRaised, expEstimate, expStreamed,
                   expRowsProcessed, expGen, expOut>>
    /\ UNCHANGED notExp

\* the handler runs the audit block and returns the streaming response; an
\* exception after the audit block is answered by the outer except clause
ExportAccept ==
    /\ expPc = "request"
    /\ expHasResult /\ expTotalRows # 0
    /\ \E audit \in AuditFaults, fault \in HandlerFaults \ {"before_audit"}, db_ok \in BOOLEAN :
          LET size == estimate_size_bytes(expColumns, expRows, expTotalRows, expFormat)
              record == CompletedRecord(expFormat, expTotalRows, size)
              handed == IF audit = "estimate" THEN <<>>
                        ELSE <<Handed(record, audit # "db")>>
              raised == audit = "estimate" \/ ~handed[1].stored
              failing == fault = "after_audit" \/ AfterAudit(raised) = "error"
          IN /\ expEstimate' = IF audit = "estimate" THEN -1 ELSE size
             /\ expAuditRaised' = raised
             /\ expFault' = fault
             /\ expHistory' = IF failing
                              THEN handed \o <<Handed(FailedRecord(expFormat), db_ok)>>
                              ELSE handed
             /\ expHttp' = IF failing THEN 500 ELSE 200
             /\ expPc' = IF failing THEN "failed" ELSE "responded"
    /\ UNCHANGED <<expFormat, expHasResult, expColumns, expRows, expTotalRows, expOptions,
                   expStreamed, expRowsProcessed, expGen, expOut>>
    /\ UNCHANGED notExp

\* an exception before the audit block: the outer except clause hands a
\* "failed" record to the sink and answers 500
ExportFail ==
    /\ expPc = "request"
    /\ expHasResult /\ expTotalRows # 0
    /\ \E db_ok \in BOOLEAN :
          expHistory' = <<Handed(FailedRecord(expFormat), db_ok)>>
    /\ expFault' = "before_audit"
    /\ expHttp' = 500
    /\ expPc' = "failed"
    /\ UNCHANGED <<expFormat, expHasResult, expColumns, expRows, expTotalRows, expOptions,
                   expAuditRaised, expEstimate, expStreamed, expRowsProcessed,
                   expGen, expOut>>
    /\ UNCHANGED notExp

\* the statements after `yield chunk` in stream_csv and stream_json, run when
\* the generator is resumed: the CSV counter grows by the line feeds of the
\* chunk, the JSON counter by self.chunk_size; the plain path has no counter
AfterYield(streamed, format, rows_processed, out) ==
    IF ~streamed THEN rows_processed
    ELSE IF format = "csv"
         THEN LET chunk == out[Len(out)]
              IN rows_processed + Cardinality({i \in 1..Len(chunk) : chunk[i] = "LF"})
         ELSE rows_processed + STREAM_CHUNK_SIZE

\* the first next() on the response body: export_csv / export_json decides
\* the path and yields the first chunk, if there is one
ExportFirstChunk ==
    /\ expPc = "responded"
    /\ expStreamed' = is_large_dataset(expTotalRows)
    /\ expRowsProcessed' = 0
    /\ IF ExportChunks = <<>>
       THEN expOut' = <<>> /\ expGen' = <<>> /\ expPc' = "done"
       ELSE /\ expOut' = <<Head(ExportChunks)>>
            /\ expGen' = Tail(ExportChunks)
            /\ expPc' = "streaming"
    /\ UNCHANGED <<expFormat, expHasResult, expColumns, expRows, expTotalRows, expOptions,
                   expHttp, expFault, expHistory, expAuditRaised, expEstimate>>
    /\ UNCHANGED notExp

\* next(): the next chunk
ExportNextChunk ==
    /\ expPc = "streaming"
    /\ expGen # <<>>
    /\ expOut' = Append(expOut, Head(expGen))
    /\ expRowsProcessed' = AfterYield(expStreamed, expFormat, expRowsProcessed, expOut)
    /\ expGen' = Tail(expGen)
    /\ UNCHANGED <<expFormat, expHasResult, expColumns, expRows, expTotalRows, expOptions,
                   expPc, expHttp, expFault, expHistory, expAuditRaised, expEstimate,
                   expStreamed>>
    /\ UNCHANGED notExp

\* next(): the generator returns
ExportStop ==
    /\ expPc = "streaming"
    /\ expGen = <<>>
    /\ expPc' = "done"
    /\ expRowsProcessed' = AfterYield(expStreamed, expFormat, expRowsProcessed, expOut)
    /\ UNCHANGED <<expFormat, expHasResult, expColumns, expRows, expTotalRows, expOptions,
                   expHttp, expFault, expHistory, expAuditRaised, expEstimate,
                   expStreamed, expGen, expOut>>
    /\ UNCHANGED notExp

\* next() raises while the response body is pulled: the handler has
\* returned, the exception leaves the generator and nothing is recorded
ExportStreamError ==
    /\ expPc \in {"responded", "streaming"}
    /\ expPc' = "aborted"
    /\ UNCHANGED <<expFormat, expHasResult, expColumns, expRows, expTotalRows, expOptions,
                   expHttp, expFault, expHistory, expAuditRaised, expEstimate,
                   expStreamed, expRowsProcessed, expGen, expOut>>
    /\ UNCHANGED notExp

NextExport ==
    \/ ExportReject \/ ExportAccept \/ ExportFail
    \/ ExportFirstChunk \/ ExportNextChunk \/ ExportStop \/ ExportStreamError

SpecExport == InitExport /\ [][NextExport]_vars

(***************************************************************************)
(* Claims on the export service and endpoints                              *)
(***************************************************************************)
\* C13: the stream-versus-plain decision is true iff total_rows > 10000
\* (false at 10000, true at 10001); should_stream and the decision taken
\* inside export_csv / export_json agree, whatever len(rows) is.
C13_StreamDecision ==
    expPc \in {"streaming", "done"} =>
        /\ expStreamed = (expTotalRows > 10000)
        /\ should_stream(expTotalRows) = expStreamed

C13_Witness ==
    /\ expPc = "done" /\ expStreamed /\ expTotalRows = 10001 /\ Len(expRows) = 0

\* C16: the output of export_csv begins with the BOM chunk iff
\* options.include_bom; without it the first chunk is the header chunk.
\* On the plain path and on the streaming path.
C16_BomIffOption ==
    (expFormat = "csv" /\ expPc \in {"streaming", "done"}) =>
        /\ (expOut # <<>> /\ expOut[1] = BOM) = expOptions.include_bom
        /\ (~expOptions.include_bom /\ expRows # <<>>) =>
              CsvRecords(expOut[1])[1] = [c \in 1..Len(expColumns) |-> NameText(expColumns[c])]

\* the output of the plain path for the request
PlainOutput ==
    Concat(IF expFormat = "csv" THEN PlainCsv(expColumns, expRows, expOptions)
           ELSE PlainJson(expColumns, expRows, expOptions))

\* C17: for the same columns, rows and options the concatenated output on
\* the streaming path is identical to the output on the plain path.
C17_StreamEqualsPlain ==
    (expPc = "done" /\ expStreamed) => Concat(expOut) = PlainOutput

C17_Witness ==
    /\ expPc = "done" /\ expStreamed /\ expFormat = "csv" /\ Len(expRows) = 2
    /\ Len(expOut) = 2 /\ expOut[1] = BOM

\* C18: a failure of the audit write (the estimate or create_export_history
\* raising) never aborts the export: the response is the chunk stream, and
\* the stream yields the chunks of the export.
C18_AuditFailureKeepsExport ==
    (expAuditRaised /\ expFault = "none") =>
        /\ expHttp = 200
        /\ expPc = "done" => expOut = ExportChunks

C18_Witness ==
    /\ expAuditRaised /\ expFault = "none" /\ expPc = "done" /\ expHttp = 200
    /\ expEstimate = -1 /\ expHistory = <<>> /\ Len(expOut) = 3

\* C19: every audit record handed to the history sink has a status in
\* {success, failed, cancelled}; the record of an export that proceeds to
\* streaming passes the status constraint and is stored.
C19_AuditStatusAllowed ==
    \A k \in 1..Len(expHistory) :
        /\ expHistory[k].record.status \in {"success", "failed", "cancelled"}
        /\ (expPc \in {"responded", "streaming", "done"} /\ expEstimate >= 0)
              => expHistory[k].stored

(***************************************************************************)
(* Size estimation on its own: estimate_size_bytes(data, format) on data   *)
(* with more rows than the sample takes                                    *)
(***************************************************************************)
MaxEstRows == 11

EstRowSet == { [k \in {"id"} |-> Int1], [k \in {"id"} |-> None] }

EstTotalRows == {0, 1, 27, LARGE_DATASET_THRESHOLD + 1}

InitEstimate ==
    /\ GateIdle /\ CsvIdle /\ JsonIdle /\ QryIdle /\ HstIdle /\ MdIdle
    /\ expFormat \in {"csv", "json"}
    /\ expHasResult = TRUE
    /\ expColumns = <<"id">>
    /\ expRows \in SeqsUpTo(EstRowSet, MaxEstRows)
    /\ expTotalRows \in EstTotalRows
    /\ expOptions = NoOptions
    /\ expPc = "estimate"
    /\ expHttp = 0
    /\ expFault = "none"
    /\ expHistory = <<>>
    /\ expAuditRaised = FALSE
    /\ expEstimate = -1
    /\ expStreamed = FALSE
    /\ expRowsProcessed = 0
    /\ expGen = <<>>
    /\ expOut = <<>>

\* a call estimate_size_bytes(data, format)
EstimateSize ==
    /\ expPc = "estimate"
    /\ expEstimate' = estimate_size_bytes(expColumns, expRows, expTotalRows, expFormat)
    /\ expPc' = "estimated"
    /\ UNCHANGED <<expFormat, expHasResult, expColumns, expRows, expTotalRows, expOptions,
                   expHttp, expFault, expHistory, expAuditRaised, expStreamed, expRowsProcessed,
                   expGen, expOut>>
    /\ UNCHANGED notExp

NextEstimate == EstimateSize

SpecEstimate == InitEstimate /\ [][NextEstimate]_vars

\* C14: estimate_size_bytes returns 0 whenever total_rows is 0, for both
\* formats and whether or not rows is empty, and whenever rows is empty.
C14_ZeroEstimate ==
    (expPc = "estimated" /\ (expTotalRows = 0 \/ expRows = <<>>)) => expEstimate = 0

C14_Witness ==
    /\ expPc = "estimated" /\ expTotalRows = 0 /\ Len(expRows) = 3
    /\ expFormat = "json" /\ expEstimate = 0

\* the UTF-8 length of the first k rows rendered by the formatter of the format
RenderedBytes(format, columns, rows, k) ==
    SumBytes(IF format = "csv"
             THEN format_rows(TRUE, columns, SubSeq(rows, 1, k), k)
             ELSE json_format_rows(FALSE, columns, SubSeq(rows, 1, k), k))

\* C15: for non-empty rows the estimate is the integer part of (the UTF-8
\* length of the first k = min(10, len(rows)) rows rendered by the formatter
\* of the format) / k * total_rows; the multiplier is total_rows, and rows
\* after the first 10 do not matter.
C15_EstimateFormula ==
    (expPc = "estimated" /\ expRows # <<>>) =>
        LET k == Min(10, Len(expRows))
        IN expEstimate
             = (RenderedBytes(expFormat, expColumns, expRows, k) * expTotalRows) \div k

(***************************************************************************)
(* Query execution: api/queries.py, services/query_service.py.  The        *)
(* database driver is asyncpg: connect and fetch either succeed or raise.  *)
(***************************************************************************)
\* what asyncpg.connect raises: a refused connection is a builtin
\* ConnectionRefusedError, a timeout an asyncio TimeoutError, a wrong
\* password an asyncpg PostgresError, an unknown host a socket.gaierror
ConnectFaults ==
    {"ConnectionRefusedError", "TimeoutError", "InvalidPasswordError", "gaierror"}

\* what conn.fetch raises: subclasses of asyncpg.PostgresError
FetchFaults == {"UndefinedTableError", "QueryCanceledError"}

\* isinstance(e, ConnectionError)
IsConnectionError(exc) == exc \in {"ConnectionRefusedError", "ConnectionResetError"}

\* the except clauses of the endpoint, in order
HttpStatusFor(exc) ==
    CASE exc = "ValueError" -> 404
      [] exc = "SQLValidationError" -> 400
      [] IsConnectionError(exc) -> 503
      [] OTHER -> 500

query_history_limit == 50

\* the positions in the table of the rows of one connection
RowsOf(history, connection_id) ==
    {i \in 1..Len(history) : history[i].connection_id = connection_id}

\* the rows at the positions keep, in table order
KeepRows(history, keep) ==
    [k \in 1..Cardinality(keep) |->
        history[CHOOSE i \in keep : Cardinality({j \in keep : j <= i}) = k]]

\* the rows before row i in ORDER BY executed_at ASC (equal times by position)
OlderThan(history, own, i) ==
    {j \in own : \/ history[j].executed_at < history[i].executed_at
                 \/ (history[j].executed_at = history[i].executed_at /\ j < i)}

\* a clean-up that counts and deletes the rows of every connection
CleanupAnyConnection(history, connection_id) ==
    IF Len(history) > query_history_limit
    THEN SubSeq(history, Len(history) - query_history_limit + 1, Len(history))
    ELSE history

\* _cleanup_old_history: over the limit, the oldest rows of the connection
\* are deleted
cleanup_old_history(history, connection_id) ==
    LET own == RowsOf(history, connection_id)
        count == Cardinality(own)
    IN IF count > query_history_limit
       THEN LET entries_to_delete == count - query_history_limit
                old_entries ==
                    {i \in own : Cardinality(OlderThan(history, own, i)) < entries_to_delete}
            IN KeepRows(history, (1..Len(history)) \ old_entries)
       ELSE history

HistoryEntry(connection_id, executed_at, query_text, row_count, success, error_message) ==
    [connection_id |-> connection_id, executed_at |-> executed_at,
     query_text |-> query_text, row_count |-> row_count,
     success |-> success, error_message |-> error_message]

\* _save_to_history: the row is added and committed, then the clean-up runs
save_to_history(history, entry) ==
    cleanup_old_history(Append(history, entry), entry.connection_id)

\* a request POST /execute, not yet handled
InitQuery ==
    /\ GateIdle /\ CsvIdle /\ JsonIdle /\ ExpIdle /\ HstIdle /\ MdIdle
    /\ qrySql \in SqlInputs
    /\ qryConnExists \in BOOLEAN
    /\ qryPc = "request"
    /\ qryGate = NoResult
    /\ qryRaised = "none"
    /\ qryStage = "none"
    /\ qryExecuted = <<>>
    /\ qryHistory = <<>>
    /\ qryHttp = 0

\* execute_query up to its first await: the connection is looked up, the
\* SQL goes through the gate and the stored password is decrypted, which
\* raises InvalidToken when the key on disk is not the key it was encrypted
\* with; an exception is answered by the endpoint
QueryStart ==
    /\ qryPc = "request"
    /\ IF ~qryConnExists
       THEN /\ qryRaised' = "ValueError"
            /\ qryStage' = "lookup"
            /\ qryHttp' = HttpStatusFor("ValueError")
            /\ qryPc' = "responded"
            /\ UNCHANGED qryGate
       ELSE LET gate == validate_and_transform_query(qrySql)
            IN /\ qryGate' = gate
               /\ IF gate.status = "ok"
                  THEN \E decrypted \in BOOLEAN :
                          IF decrypted
                          THEN /\ qryPc' = "connecting"
                               /\ UNCHANGED <<qryRaised, qryStage, qryHttp>>
                          ELSE /\ qryRaised' = "InvalidToken"
                               /\ qryStage' = "decrypt"
                               /\ qryHttp' = HttpStatusFor("InvalidToken")
                               /\ qryPc' = "responded"
                  ELSE /\ qryRaised' = gate.status
                       /\ qryStage' = "gate"
                       /\ qryHttp' = HttpStatusFor(gate.status)
                       /\ qryPc' = "responded"
    /\ UNCHANGED <<qrySql, qryConnExists, qryExecuted, qryHistory>>
    /\ UNCHANGED notQry

\* a row_count that is len(rows) also after a failure
RowCountLen(success, rows_len) == rows_len

\* len(rows) if success else None, None written -1
RowCountSaved(success, rows_len) == IF success THEN rows_len ELSE -1

\* await asyncpg.connect(...) returns or raises; on an exception the finally
\* clause saves the history entry and the endpoint answers
QueryConnect ==
    /\ qryPc = "connecting"
    /\ \E outcome \in {"ok"} \cup ConnectFaults :
          IF outcome = "ok"
          THEN /\ qryPc' = "fetching"
               /\ UNCHANGED <<qryRaised, qryStage, qryHistory, qryHttp>>
          ELSE /\ qryRaised' = outcome
               /\ qryStage' = "connect"
               /\ qryHistory' = save_to_history(qryHistory,
                                      HistoryEntry(1, 0, qryGate.sql, RowCountSaved(FALSE, 0),
                                                   FALSE, outcome))
               /\ qryHttp' = HttpStatusFor(outcome)
               /\ qryPc' = "responded"
    /\ UNCHANGED <<qrySql, qryConnExists, qryGate, qryExecuted>>
    /\ UNCHANGED notQry

\* the argument of conn.fetch, were it the request's SQL
FetchArgumentRaw(sql, gate) == sql

\* the argument of conn.fetch: transformed_sql
FetchArgument(sql, gate) == gate.sql

\* await conn.fetch(transformed_sql) returns rows or raises; the connection
\* is closed, the history entry is saved, the endpoint answers
QueryFetch ==
    /\ qryPc = "fetching"
    /\ qryExecuted' = Append(qryExecuted, FetchArgument(qrySql, qryGate))
    /\ \E outcome \in {"ok"} \cup FetchFaults, row_count \in 0..1 :
          IF outcome = "ok"
          THEN /\ qryHistory' = save_to_history(qryHistory,
                                      HistoryEntry(1, 0, qryGate.sql,
                                                   RowCountSaved(TRUE, row_count), TRUE, "none"))
               /\ qryHttp' = 200
               /\ UNCHANGED <<qryRaised, qryStage>>
          ELSE /\ qryRaised' = outcome
               /\ qryStage' = "fetch"
               /\ qryHistory' = save_to_history(qryHistory,
                                      HistoryEntry(1, 0, qryGate.sql, RowCountSaved(FALSE, 0),
                                                   FALSE, outcome))
               /\ qryHttp' = HttpStatusFor(outcome)
    /\ qryPc' = "responded"
    /\ UNCHANGED <<qrySql, qryConnExists, qryGate>>
    /\ UNCHANGED notQry

NextQuery == QueryStart \/ QueryConnect \/ QueryFetch

SpecQuery == InitQuery /\ [][NextQuery]_vars

\* C20: at the HTTP boundary of query execution a syntax or statement-kind
\* validation error gives a 400-class status, a database execution or
\* connection error gives 503, and only errors of neither kind give 500.
C20_ErrorStatusByKind ==
    (qryPc = "responded" /\ qryRaised # "none") =>
        /\ qryStage = "gate" => qryHttp \in 400..499
        /\ qryStage \in {"connect", "fetch"} => qryHttp = 503
        /\ qryHttp = 500 => qryStage \notin {"gate", "connect", "fetch"}

\* C21: the database executor is invoked only after the gate accepted the
\* request's SQL and receives exactly the gate's transformed_sql; when the
\* gate rejects the SQL no connection is opened and nothing is executed.
C21_ExecutesGateOutputOnly ==
    LET gate == validate_and_transform_query(qrySql)
    IN /\ qryExecuted # <<>> => (gate.status = "ok" /\ qryExecuted = <<gate.sql>>)
       /\ (qryPc # "unused" /\ gate.status # "ok") =>
             (qryPc \notin {"connecting", "fetching"} /\ qryExecuted = <<>>)

C21_Witness ==
    /\ qryPc = "responded"
    /\ qryExecuted = <<qryGate.sql>>
    /\ qryGate.sql # qrySql
    /\ qryGate.status = "ok"

\* the row objects among the chunks of a JSON stream
RowObjectsIn(chunks) ==
    Cardinality({i \in 1..Len(chunks) :
                    chunks[i] \notin {JsonOpen(expOptions.pretty), JsonClose(expOptions.pretty)}})

\* C22: during stream_json the progress counter tracks the rows actually
\* emitted: when the generator is resumed after a yielded chunk the counter
\* equals the number of row objects yielded so far, it never exceeds the
\* number of rows, and at the end of the stream it equals len(rows).
C22_ProgressTracksRows ==
    (expFormat = "json" /\ expStreamed /\ expPc \in {"streaming", "done"}) =>
        /\ expRowsProcessed <= Len(expRows)
        /\ expPc = "done" => expRowsProcessed = Len(expRows)
        /\ expPc = "streaming" =>
              expRowsProcessed = RowObjectsIn(SubSeq(expOut, 1, Len(expOut) - 1))

\* the rows the generator has taken from the row list so far
CsvConsumed == SubSeq(csvRows, 1, Min(csvI, Len(csvRows)))

\* what was delivered is the stream of the consumed rows alone, and a
\* prefix of the full stream
CsvLazyState ==
    /\ csvPc = "start" => csvOut = <<>>
    /\ csvPc \in {"loop", "done"} =>
          /\ csvOut = format_rows(csvBom, csvColumns, CsvConsumed, csvChunkSize)
          /\ csvOut = SubSeq(format_rows(csvBom, csvColumns, csvRows, csvChunkSize),
                             1, Len(csvOut))

\* one pull delivers at most one chunk and takes at most chunk_size rows
CsvLazyStep ==
    /\ Len(csvOut') <= Len(csvOut) + 1
    /\ csvOut = SubSeq(csvOut', 1, Len(csvOut))
    /\ csvI <= csvI' /\ csvI' <= csvI + csvChunkSize

\* C23: the CSV chunk stream is lazy and caller-driven: each pull renders at
\* most chunk_size rows, rows of chunks not yet pulled are not rendered, and
\* after k pulls the chunks delivered are exactly the first k chunks of the
\* full stream (the producer only moves when it is pulled).
C23_LazyCallerDriven == []CsvLazyState /\ [][CsvLazyStep]_vars

C23_Witness ==
    /\ csvPc = "loop"
    /\ csvI > 0 /\ csvI < Len(csvRows)
    /\ csvChunkSize = 2
    /\ Len(csvOut) = 2

(***************************************************************************)
(* Query history under concurrent executions: each request runs            *)
(* execute_query up to an await, and later its finally clause, which       *)
(* saves the history row and cleans up without awaiting.                   *)
(***************************************************************************)
MaxExecs == 3

HstConns == {1, 2}

\* a table the program can have built: one old row of connection 2, then k
\* rows of connection 1
Prefilled(k) ==
    <<HistoryEntry(2, 1, <<>>, 0, TRUE, "none")>>
    \o [i \in 1..k |-> HistoryEntry(1, i + 1, <<>>, 0, TRUE, "none")]

InitHistory ==
    /\ GateIdle /\ CsvIdle /\ JsonIdle /\ ExpIdle /\ QryIdle /\ MdIdle
    /\ hstEntries \in {Prefilled(k) : k \in {0, query_history_limit - 1, query_history_limit}}
    /\ hstPc = [p \in Procs |-> "idle"]
    /\ hstConn = [p \in Procs |-> 0]
    /\ hstClock = query_history_limit + 2

InFlight == {p \in Procs : hstPc[p] = "awaiting"}

\* execute_query up to await asyncpg.connect: the connection exists and the
\* SQL passed the gate
HstStart(p) ==
    /\ hstPc[p] = "idle"
    /\ hstClock + Cardinality(InFlight) < query_history_limit + 2 + MaxExecs
    /\ \E c \in HstConns : hstConn' = [hstConn EXCEPT ![p] = c]
    /\ hstPc' = [hstPc EXCEPT ![p] = "awaiting"]
    /\ UNCHANGED <<hstEntries, hstClock>>
    /\ UNCHANGED notHst

\* the awaits are over, with rows or with an exception: the finally clause
\* runs _save_to_history
HstFinish(p) ==
    /\ hstPc[p] = "awaiting"
    /\ \E success \in BOOLEAN :
          hstEntries' = save_to_history(hstEntries,
                            HistoryEntry(hstConn[p], hstClock, <<>>,
                                         IF success THEN 0 ELSE -1, success,
                                         IF success THEN "none" ELSE "error"))
    /\ hstClock' = hstClock + 1
    /\ hstPc' = [hstPc EXCEPT ![p] = "idle"]
    /\ UNCHANGED hstConn
    /\ UNCHANGED notHst

NextHistory == \E p \in Procs : HstStart(p) \/ HstFinish(p)

SpecHistory == InitHistory /\ [][NextHistory]_vars

\* the rows of one connection, in table order
Of(history, c) == SelectSeq(history, LAMBDA e : e.connection_id = c)

LastN(seq, n) == SubSeq(seq, Len(seq) - Min(n, Len(seq)) + 1, Len(seq))

HistoryBounded ==
    \A c \in HstConns : Len(Of(hstEntries, c)) <= query_history_limit

\* a completed execution adds its row to its connection and keeps the most
\* recent rows of that connection; every other connection keeps its rows
HistoryStep ==
    \A c \in HstConns :
        LET old == Of(hstEntries, c)
            new == Of(hstEntries', c)
        IN IF \E p \in Procs : hstPc[p] = "awaiting" /\ hstPc'[p] = "idle" /\ hstConn[p] = c
           THEN /\ new # <<>>
                /\ new[Len(new)].executed_at = hstClock
                /\ new = LastN(Append(old, new[Len(new)]), query_history_limit)
           ELSE new = old

\* C24: after every completed execute_query the connection has at most
\* query_history_limit history entries, the entries kept are the most
\* recently executed ones, and entries of other connections are unchanged,
\* also when executions on the same connection interleave at their awaits.
C24_HistoryKeepsLastN == []HistoryBounded /\ [][HistoryStep]_vars

C24_Witness ==
    /\ Len(Of(hstEntries, 1)) = query_history_limit
    /\ Of(hstEntries, 1)[1].executed_at = 4
    /\ Len(Of(hstEntries, 2)) = 1
    /\ hstClock = query_history_limit + 4

(***************************************************************************)
(* Metadata cache: services/metadata_service.py.  Time is counted in       *)
(* hours; a table_name of None is written "NULL".                          *)
(***************************************************************************)
MaxTime == 2
MaxCalls == 2

metadata_cache_ttl_hours == 1

MdConns == {1, 2}

\* the keys of get_schemas(), get_tables("public") and
\* get_table_details("public", "users")
MdKeys ==
    { [metadata_type |-> "schemas", schema_name |-> "*", table_name |-> "NULL"],
      [metadata_type |-> "tables", schema_name |-> "public", table_name |-> "NULL"],
      [metadata_type |-> "columns", schema_name |-> "public", table_name |-> "users"] }

\* the filter on the key columns in _get_from_cache and _save_to_cache
Matches(row, call) ==
    /\ row.connection_id = call.connection_id
    /\ row.metadata_type = call.metadata_type
    /\ row.schema_name = call.schema_name
    /\ IF call.table_name # "NULL"
       THEN row.table_name = call.table_name
       ELSE row.table_name = "NULL"

IsFreshInclusive(row, now) == row.expires_at >= now

\* MetadataCache.expires_at > datetime.utcnow()
IsFresh(row, now) == row.expires_at > now

\* _get_from_cache: the rows query.first() can return
get_from_cache(cache, call, now) ==
    {row \in BagToSet(cache) : Matches(row, call) /\ IsFresh(row, now)}

\* the rows of the table that pass a test, as a table
Rows(cache, Keep(_)) ==
    LET kept == {row \in BagToSet(cache) : Keep(row)}
    IN [row \in kept |-> cache[row]]

CacheEntry(call, now) ==
    [connection_id |-> call.connection_id, metadata_type |-> call.metadata_type,
     schema_name |-> call.schema_name, table_name |-> call.table_name,
     cached_at |-> now, expires_at |-> now + metadata_cache_ttl_hours]

SaveWithoutDelete(cache, call, now) ==
    cache (+) SetToBag({CacheEntry(call, now)})

\* _save_to_cache: the rows of the key are deleted, the new row is added
save_to_cache(cache, call, now) ==
    Rows(cache, LAMBDA row : ~Matches(row, call)) (+) SetToBag({CacheEntry(call, now)})

\* refresh_metadata
refresh_metadata(cache, connection_id) ==
    Rows(cache, LAMBDA row : row.connection_id # connection_id)

InitMetadata ==
    /\ GateIdle /\ CsvIdle /\ JsonIdle /\ ExpIdle /\ QryIdle /\ HstIdle
    /\ mdCache = EmptyBag
    /\ mdNow = 0
    /\ mdPc = [p \in Procs |-> "idle"]
    /\ mdCall = [p \in Procs |-> NoCall]
    /\ mdResult = [p \in Procs |-> "none"]
    /\ mdCalls = 0

\* get_schemas / get_tables / get_table_details up to the first await: the
\* answer comes from the cache, or the call goes on to fetch
MdCall(p) ==
    /\ mdPc[p] = "idle"
    /\ mdCalls < MaxCalls
    /\ \E c \in MdConns, key \in MdKeys, use_cache \in BOOLEAN :
          LET call == [connection_id |-> c, metadata_type |-> key.metadata_type,
                       schema_name |-> key.schema_name, table_name |-> key.table_name,
                       use_cache |-> use_cache, n |-> mdCalls + 1]
              cached == IF use_cache THEN get_from_cache(mdCache, call, mdNow) ELSE {}
          IN /\ mdCall' = [mdCall EXCEPT ![p] = call]
             /\ IF cached # {}
                THEN /\ mdResult' = [mdResult EXCEPT ![p] = "cached"]
                     /\ UNCHANGED mdPc
                ELSE /\ mdPc' = [mdPc EXCEPT ![p] = "fetching"]
                     /\ mdResult' = [mdResult EXCEPT ![p] = "none"]
    /\ mdCalls' = mdCalls + 1
    /\ UNCHANGED <<mdCache, mdNow>>
    /\ UNCHANGED notMd

\* the fetches returned: _save_to_cache, and the call answers
MdSave(p) ==
    /\ mdPc[p] = "fetching"
    /\ mdCache' = save_to_cache(mdCache, mdCall[p], mdNow)
    /\ mdPc' = [mdPc EXCEPT ![p] = "idle"]
    /\ mdResult' = [mdResult EXCEPT ![p] = "fetched"]
    /\ UNCHANGED <<mdNow, mdCall, mdCalls>>
    /\ UNCHANGED notMd

\* asyncpg.connect or a fetch raised: nothing is saved
MdFetchFail(p) ==
    /\ mdPc[p] = "fetching"
    /\ mdPc' = [mdPc EXCEPT ![p] = "idle"]
    /\ mdResult' = [mdResult EXCEPT ![p] = "failed"]
    /\ UNCHANGED <<mdCache, mdNow, mdCall, mdCalls>>
    /\ UNCHANGED notMd

\* POST /{connection_id}/refresh
MdRefresh ==
    /\ \E c \in MdConns : mdCache' = refresh_metadata(mdCache, c)
    /\ UNCHANGED <<mdNow, mdPc, mdCall, mdResult, mdCalls>>
    /\ UNCHANGED notMd

\* an hour passes
MdTick ==
    /\ mdNow < MaxTime
    /\ mdNow' = mdNow + 1
    /\ UNCHANGED <<mdCache, mdPc, mdCall, mdResult, mdCalls>>
    /\ UNCHANGED notMd

NextMetadata ==
    \/ \E p \in Procs : MdCall(p) \/ MdSave(p) \/ MdFetchFail(p)
    \/ MdRefresh
    \/ MdTick

SpecMetadata == InitMetadata /\ [][NextMetadata]_vars

\* the unexpired rows of the key of a call
Unexpired(call) ==
    {row \in BagToSet(mdCache) : Matches(row, call) /\ row.expires_at > mdNow}

\* a call is answered from the cache exactly when it uses the cache and an
\* unexpired row of its key exists; otherwise it goes on to fetch
CallStep ==
    mdCalls' = mdCalls + 1 =>
        \E p \in Procs :
            LET call == mdCall'[p]
            IN /\ call.n = mdCalls'
               /\ mdCache' = mdCache
               /\ IF call.use_cache /\ Unexpired(call) # {}
                  THEN mdPc'[p] = "idle" /\ mdResult'[p] = "cached"
                  ELSE mdPc'[p] = "fetching"

\* a call that fetched stores one fresh row of its key and leaves the rows
\* of the other keys alone
SaveStep ==
    \A p \in Procs :
        (mdPc[p] = "fetching" /\ mdResult'[p] = "fetched") =>
            LET call == mdCall[p]
                mine == {row \in BagToSet(mdCache') : Matches(row, call)}
            IN /\ \A row \in mine :
                     row.expires_at = mdNow + metadata_cache_ttl_hours /\ row.expires_at > mdNow
               /\ mine # {}
               /\ \A row \in BagToSet(mdCache) \cup BagToSet(mdCache') :
                     ~Matches(row, call) =>
                        CopiesIn(row, mdCache') = CopiesIn(row, mdCache)

\* a refresh removes every row of one connection and no other row
RefreshStep ==
    (mdCache' # mdCache /\ mdPc' = mdPc) =>
        \E c \in MdConns :
            /\ \A row \in BagToSet(mdCache') : row.connection_id # c
            /\ \A row \in BagToSet(mdCache) :
                  row.connection_id # c => CopiesIn(row, mdCache') = CopiesIn(row, mdCache)

SameKey(r1, r2) ==
    /\ r1.connection_id = r2.connection_id
    /\ r1.metadata_type = r2.metadata_type
    /\ r1.schema_name = r2.schema_name
    /\ r1.table_name = r2.table_name

\* C30: after any sequence of calls, also calls for the same key that
\* interleave at their awaits (both miss, both fetch, both save), the cache
\* holds at most one entry per (connection_id, metadata_type, schema_name,
\* table_name).
C30_OneEntryPerKey ==
    \A r1 \in BagToSet(mdCache) :
        /\ CopiesIn(r1, mdCache) = 1
        /\ \A r2 \in BagToSet(mdCache) : SameKey(r1, r2) => r1 = r2

\* both calls missed the cache, the later one has saved, the earlier one is
\* still fetching
C30_Witness ==
    /\ mdPc[1] = "fetching" /\ mdCall[1].use_cache /\ mdCall[1].n = 1
    /\ mdPc[2] = "idle" /\ mdResult[2] = "fetched" /\ mdCall[2].use_cache /\ mdCall[2].n = 2
    /\ Matches(CacheEntry(mdCall[1], 0), mdCall[2])
    /\ \E row \in BagToSet(mdCache) : Matches(row, mdCall[1])

\* the text is one SELECT statement with a LIMIT clause at its top level
SingleSelectWithLimit(sql) ==
    /\ Len(sql) = 4
    /\ sql[1] = "SELECT"
    /\ \A i \in 1..Len(sql) : sql[i] # ";"
    /\ Cardinality({i \in 1..Len(sql) : sql[i] = "SELECT"}) = 1
    /\ sql[3] = "LIMIT" /\ sql[4] \in Numbers

\* C26: every SQL string returned by validate_and_transform_query is a
\* single SELECT statement that carries a top-level LIMIT clause, and no
\* SELECT without a LIMIT reaches the database executor.
C26_ReturnedSqlHasLimit ==
    /\ qryGate.status = "ok" => SingleSelectWithLimit(qryGate.sql)
    /\ \A i \in 1..Len(qryExecuted) : SingleSelectWithLimit(qryExecuted[i])

C26_Witness ==
    /\ qrySql = <<"select", "body", ";", "DROP", "body">>
    /\ qryGate.status = "ok"
    /\ qryExecuted = <<qryGate.sql>>

(***************************************************************************)
(* The formatters called with any chunk_size: range(0, len(rows), 0)       *)
(* raises ValueError, a negative step gives an empty range.                *)
(***************************************************************************)
AnyChunkSizes == (-1)..MaxChunk

\* one of the two generators, just created
InitChunkSizes ==
    /\ GateIdle /\ ExpIdle /\ QryIdle /\ HstIdle /\ MdIdle
    /\ \/ /\ JsonIdle
          /\ csvBom \in BOOLEAN
          /\ csvColumns \in CsvColumnLists
          /\ csvRows \in SeqsUpTo(CsvRowSet, MaxRows)
          /\ csvChunkSize \in AnyChunkSizes
          /\ csvPc = "start"
          /\ csvI = 0
          /\ csvOut = <<>>
          /\ csvComplete = NoComplete
       \/ /\ CsvIdle
          /\ jsonPretty \in BOOLEAN
          /\ jsonColumns \in CsvColumnLists
          /\ jsonRows \in SeqsUpTo(JsonRowSet, MaxRows)
          /\ jsonChunkSize \in AnyChunkSizes
          /\ jsonPc = "start"
          /\ jsonI = 0
          /\ jsonJ = 0
          /\ jsonRowIndex = 0
          /\ jsonOut = <<>>
          /\ jsonComplete = NoComplete

\* next(): range(0, len(rows), 0) raises ValueError out of the generator
CsvRangeError ==
    /\ InLoop
    /\ csvChunkSize = 0
    /\ csvPc' = "raised"
    /\ UNCHANGED <<csvBom, csvColumns, csvRows, csvChunkSize, csvI, csvOut, csvComplete>>
    /\ UNCHANGED notCsv

JsonRangeError ==
    /\ jsonPc = "loop"
    /\ jsonChunkSize = 0
    /\ jsonPc' = "raised"
    /\ UNCHANGED <<jsonPretty, jsonColumns, jsonRows, jsonChunkSize, jsonI, jsonJ,
                   jsonRowIndex, jsonOut, jsonComplete>>
    /\ UNCHANGED notJson

NextChunkSizes ==
    \/ CsvYieldBom \/ CsvYieldChunk \/ CsvStop \/ CsvRangeError
    \/ JsonYieldOpen \/ JsonYieldRow \/ JsonYieldClose \/ JsonStop \/ JsonRangeError

SpecChunkSizes == InitChunkSizes /\ [][NextChunkSizes]_vars

\* C27: for every chunk_size, 0 and negative values included, format_rows of
\* either formatter raises an error or emits every input row exactly once in
\* input order: a stream that completes normally omits no row.
C27_NoRowOmitted ==
    /\ csvPc = "done" =>
          Concat(csvOut) = Concat(format_rows(csvBom, csvColumns, csvRows, 1))
    /\ jsonPc = "done" =>
          jsonOut = json_format_rows(jsonPretty, jsonColumns, jsonRows, 1)

\* the records the history table holds
StoredRecords == {k \in 1..Len(expHistory) : expHistory[k].stored}

\* a record handed to a working database is in the table when the first
\* chunk is out, and the table never holds two records of the request
AuditWritten ==
    /\ Cardinality(StoredRecords) <= 1
    /\ (expOut # <<>> /\ expHistory # <<>> /\ expHistory[1].db_ok) => expHistory[1].stored

\* pulling the stream, with or without an error, records nothing
StreamKeepsHistory ==
    expPc \in {"responded", "streaming"} => expHistory' = expHistory

\* C28: the audit record of an export is written before the first chunk is
\* produced and at most one record is written per request; an error raised
\* while the chunk stream is pulled writes no 'failed' record and does not
\* change the record written earlier.
C28_AuditBeforeFirstChunk == []AuditWritten /\ [][StreamKeepsHistory]_vars

\* the history entry of the request is the one the claim describes
EntryAsOutcome ==
    /\ Len(qryHistory) = 1
    /\ qryHistory[1].query_text = qryGate.sql
    /\ qryHistory[1].success = (qryRaised = "none")
    /\ IF qryRaised = "none"
       THEN qryHistory[1].error_message = "none" /\ qryHistory[1].row_count >= 0
       ELSE qryHistory[1].error_message = qryRaised /\ qryHistory[1].row_count = -1

\* no entry for an unknown connection, reported before the SQL is validated,
\* and none for SQL the gate rejects
NoEntryWhenRefused ==
    /\ qryStage = "lookup" => (qryHistory = <<>> /\ qryGate = NoResult)
    /\ qryStage = "gate" => qryHistory = <<>>

\* C29 as stated: execute_query writes exactly one history entry for every
\* call whose connection exists and whose SQL passes the gate, whether the
\* connection attempt or the execution succeeds or fails, and none when the
\* connection is unknown or the gate rejects the SQL.
C29_OneEntryPerAcceptedCall ==
    qryPc = "responded" =>
        /\ NoEntryWhenRefused
        /\ (qryConnExists /\ qryGate.status = "ok") => EntryAsOutcome

\* C29 amended: exactly one entry for every call whose connection exists,
\* whose SQL passes the gate and whose stored password decrypts; no entry
\* when the connection is unknown, the gate rejects the SQL or the password
\* does not decrypt.
C29_OneEntryPerAttempt ==
    qryPc = "responded" =>
        /\ NoEntryWhenRefused
        /\ qryStage = "decrypt" => qryHistory = <<>>
        /\ (qryConnExists /\ qryGate.status = "ok" /\ qryStage # "decrypt") => EntryAsOutcome

C29_Witness ==
    /\ qryPc = "responded"
    /\ qryStage = "connect"
    /\ qryRaised = "TimeoutError"
    /\ Len(qryHistory) = 1
    /\ qryHistory[1].row_count = -1 /\ ~qryHistory[1].success

====
